---------------------------- MODULE Spec2Model ----------------------------
(***************************************************************************)
(* A model of the tspp front end: the resolved-type lattice                *)
(* (resolved_type.cpp), the scope chain (type_scope.cpp), the type checker *)
(* (type_check_visitor.cpp), the top-level parse loop and the lowering     *)
(* driver (llvm_code_gen.cpp).                                             *)
(***************************************************************************)
EXTENDS Naturals, Sequences, FiniteSets, TLC

(***************************************************************************)
(* Bounds of the model.                                                    *)
(***************************************************************************)
\* longest parameter / template-argument list a factory step builds
MaxParams == 2
\* names of user-defined types (Named, Template)
TypeNames == {"A", "B"}

\* most scopes ever created in one run
MaxScopes == 3

VARIABLES
  ta,      \* first resolved type under comparison
  tb,      \* second resolved type
  tOp,     \* last ResolvedType operation applied to (ta, tb)
  tRes,    \* its boolean result (for the predicates)
  scopes,  \* every TypeScope created so far; scopes[i].parent_ = 0 is nullptr
  found,   \* the last lookup made on a scope and what it returned
  \* --- TypeCheckVisitor ---
  currentScope_,              \* index into scopes
  inLoop_,
  currentFunctionReturnType_, \* Null when outside a function
  stack,        \* visitor calls in progress on compound nodes, innermost last
  diagnostics,  \* calls made to error() / warning(), as a set
  success,      \* checkAST's local flag
  pc,           \* "pass1", "pass2", "done" ("idle" outside a check)
  visited,      \* nodes visited so far in this check
  \* --- parse pipeline (BaseParseVisitor, BaseVisitor, Parser) ---
  units,        \* the token stream, as the top-level units still to parse
  nodes_,       \* BaseParseVisitor::nodes_
  hadError,     \* visitParse's local flag
  visitorAst_,  \* BaseVisitor::ast_
  ast_,         \* Parser::ast_
  reported,     \* diagnostics held by the reporter during a parse
  parsePc,      \* "parsing", "parsed", "checked", "done" ("idle" outside)
  parseResult,  \* what Parser::parse returned
  \* --- LLVMCodeGen::generateCode ---
  lowerAst,     \* the top-level nodes of the AST being lowered
  lowerPos,     \* index in lowerAst of the next node to lower
  module,       \* global values of the LLVM module, in creation order
  topLevelAssemblyStatements_,
  topLevelExpressionStatements_,
  lowerPc,      \* "declare", "visit", "main", "verify", "done" ("idle")
  lowerResult,  \* what generateCode returned
  \* --- token cursor and the parsers working on it ---
  tokens_,      \* the token sequence; the EOF token follows its last element
  current_,     \* the cursor: index in tokens_ of the token peek() returns
  tokenOp,      \* the parser operation last applied ("none" at the start)
  startPos,     \* where the cursor stood when that operation was called
  parsed,       \* the expression tree that operation returned, if any
  \* --- CodeGenOptions ---
  outputFormat_,
  outputFilename_,  \* a file name is the sequence of its characters
  filename,         \* the argument of the last setOutputFilename call
  \* --- TypeCheckVisitor::checkAST over one AST ---
  checkNodes,   \* ast.getNodes()
  checkIndex,   \* index in checkNodes of the node the running pass is at
  emitted,      \* the calls made to error(), in the order they were made
  \* --- the walk over loops and jump statements ---
  lastStmt,     \* kind of the statement whose visit began or ended last
  lastReported, \* whether that visit called error() for the statement
  loopsExited,  \* number of loop bodies the walk has left
  \* --- TypeCheckVisitor::checkBinaryOp ---
  binaryOp,     \* the operator of the last binary expression checked
  binaryType,   \* the type checkBinaryOp returned for it
  \* --- parsePrimary's lookahead for a generic call ---
  savedPos,     \* the local savedPos
  isGenericCall_, \* the local isGenericCall
  \* --- the statement loops of visitParse and parseBlock ---
  blockDepth,   \* number of parseBlock calls that have not returned
  syncAtEnd,    \* whether synchronize() has been called at the end of input
  iteration,    \* the loop whose iteration ran last and where its cursor began
  \* --- LLVMCodeGen inside one function body ---
  scopes_,      \* currentFunction_->scopes_; <<>> while currentFunction_ is null
  entry,        \* the instructions emitted into the function's entry block
  identifier    \* the last visitIdentifierExpr call: its name and what it did

typeVars == <<ta, tb, tOp, tRes>>
scopeVars == <<scopes, found>>
checkVars == <<currentScope_, inLoop_, currentFunctionReturnType_, stack,
               diagnostics, success, pc, visited>>
parseVars == <<units, nodes_, hadError, visitorAst_, ast_, reported, parsePc,
               parseResult>>
lowerVars == <<lowerAst, lowerPos, module, topLevelAssemblyStatements_,
               topLevelExpressionStatements_, lowerPc, lowerResult>>
tokenVars == <<tokens_, current_, tokenOp, startPos, parsed>>
optionVars == <<outputFormat_, outputFilename_, filename>>
\* the components no walker, parse pipeline or lowering run touches
passVars == <<checkNodes, checkIndex, emitted>>
flowVars == <<lastStmt, lastReported, loopsExited>>
binaryVars == <<binaryOp, binaryType>>
lookaheadVars == <<savedPos, isGenericCall_>>
loopVars == <<blockDepth, syncAtEnd, iteration>>
localVars == <<scopes_, entry, identifier>>
laterVars == <<binaryVars, lookaheadVars, loopVars, localVars>>
otherVars == <<tokenVars, optionVars, passVars, flowVars, laterVars>>
vars == <<ta, tb, tOp, tRes, scopes, found, currentScope_, inLoop_,
          currentFunctionReturnType_, stack, diagnostics, success, pc, visited,
          units, nodes_, hadError, visitorAst_, ast_, reported, parsePc,
          parseResult, lowerAst, lowerPos, module,
          topLevelAssemblyStatements_, topLevelExpressionStatements_,
          lowerPc, lowerResult, tokens_, current_, tokenOp, startPos, parsed,
          outputFormat_, outputFilename_, filename, checkNodes, checkIndex,
          emitted, lastStmt, lastReported, loopsExited, binaryOp, binaryType,
          savedPos, isGenericCall_, blockDepth, syncAtEnd, iteration,
          scopes_, entry, identifier>>

(***************************************************************************)
(* ResolvedType values.  A value is a tuple whose head is the TypeKind and *)
(* whose tail holds the fields that kind uses.                             *)
(***************************************************************************)
Void == <<"Void">>
Int == <<"Int">>
Float == <<"Float">>
Bool == <<"Bool">>
String == <<"String">>
Error == <<"Error">>
Named(name) == <<"Named", name>>
Array(elementType) == <<"Array", elementType>>
Pointer(pointeeType, isUnsafe) == <<"Pointer", pointeeType, isUnsafe>>
Reference(refType) == <<"Reference", refType>>
Function(returnType, paramTypes) == <<"Function", returnType, paramTypes>>
Smart(pointeeType, kind) == <<"Smart", pointeeType, kind>>
Union(left, right) == <<"Union", left, right>>
Template(name, args) == <<"Template", name, args>>

SmartKind == {"Shared", "Unique", "Weak"}

getKind(t) == t[1]

\* a null std::shared_ptr<ResolvedType>
Null == <<"nullptr">>
NoLookup == [scope |-> 0, map |-> "none", name |-> "", result |-> Null]
EmptyMap == [n \in {} |-> Null]

(***************************************************************************)
(* The resolved types the comparisons are run on: every primitive, and     *)
(* every compound type over a few component types, one more level deep for *)
(* the shapes whose rules recurse.                                         *)
(***************************************************************************)
SeqsUpTo(S, n) == UNION {[1..k -> S] : k \in 0..n}

Atoms == {Void, Int, Float, Bool, String, Error, Named("A"), Named("B")}
Inner == {Int, Float, Error, Named("A")}
ParamAtoms == {Int, Float, Named("A")}
Nested == {Int, Union(Int, Float), Array(Int), Function(Float, <<Int>>)}

Compound(C, P, n) ==
  {Array(e) : e \in C}
    \cup {Pointer(e, u) : e \in C, u \in BOOLEAN}
    \cup {Reference(e) : e \in C}
    \cup {Smart(e, k) : e \in C, k \in SmartKind}
    \cup {Union(l, r) : l \in C, r \in C}
    \cup {Function(r, ps) : r \in C, ps \in SeqsUpTo(P, n)}
    \cup {Template(nm, as) : nm \in TypeNames, as \in SeqsUpTo(P, n)}

\* three components combined into a union in the three possible nestings
NestedUnions(a, b, c) ==
  {Union(Union(a, b), c), Union(Union(a, c), b), Union(a, Union(b, c))}

TypeSet ==
  Atoms \cup Compound(Inner, ParamAtoms, MaxParams) \cup Compound(Nested, Nested, 1)
    \cup NestedUnions(Int, Float, Named("A"))

(***************************************************************************)
(* ResolvedType::equals (resolved_type.cpp:258-332)                        *)
(***************************************************************************)
RECURSIVE equals(_, _)
RECURSIVE isAssignableTo(_, _)

\* element-wise comparison of two parameter / template-argument lists
RECURSIVE AllEqual(_, _, _)
AllEqual(xs, ys, i) ==
  IF i > Len(xs) THEN TRUE
  ELSE IF ~equals(xs[i], ys[i]) THEN FALSE
  ELSE AllEqual(xs, ys, i + 1)

\* a union compared in the written order only
UnionEquals_ordered(t, other) ==
  equals(t[2], other[2]) /\ equals(t[3], other[3])

\* case TypeKind::Union: order doesn't matter, A|B == B|A
UnionEquals(t, other) ==
  \/ (equals(t[2], other[2]) /\ equals(t[3], other[3]))
  \/ (equals(t[2], other[3]) /\ equals(t[3], other[2]))

equals(t, other) ==
  IF getKind(t) # getKind(other) THEN FALSE
  ELSE CASE getKind(t) \in {"Void", "Int", "Float", "Bool", "String", "Error"} -> TRUE
         [] getKind(t) = "Named" -> t[2] = other[2]
         [] getKind(t) = "Array" -> equals(t[2], other[2])
         [] getKind(t) = "Pointer" -> equals(t[2], other[2]) /\ t[3] = other[3]
         [] getKind(t) = "Reference" -> equals(t[2], other[2])
         [] getKind(t) = "Function" ->
              IF ~equals(t[2], other[2]) THEN FALSE
              ELSE IF Len(t[3]) # Len(other[3]) THEN FALSE
              ELSE AllEqual(t[3], other[3], 1)
         [] getKind(t) = "Smart" -> equals(t[2], other[2]) /\ t[3] = other[3]
         [] getKind(t) = "Union" -> UnionEquals(t, other)
         [] getKind(t) = "Template" ->
              IF t[2] # other[2] \/ Len(t[3]) # Len(other[3]) THEN FALSE
              ELSE AllEqual(t[3], other[3], 1)
         [] OTHER -> FALSE

(***************************************************************************)
(* ResolvedType::isAssignableTo (resolved_type.cpp:94-162)                 *)
(***************************************************************************)
\* the parameter loop of the Function case: target params into source params
RECURSIVE ParamsContravariant(_, _, _)
ParamsContravariant(ps, otherPs, i) ==
  IF i > Len(ps) THEN TRUE
  ELSE IF ~isAssignableTo(otherPs[i], ps[i]) THEN FALSE
  ELSE ParamsContravariant(ps, otherPs, i + 1)

\* the parameter loop run in the covariant direction
RECURSIVE ParamsCovariant(_, _, _)
ParamsCovariant(ps, otherPs, i) ==
  IF i > Len(ps) THEN TRUE
  ELSE IF ~isAssignableTo(ps[i], otherPs[i]) THEN FALSE
  ELSE ParamsCovariant(ps, otherPs, i + 1)

\* the Function case with the parameters checked covariantly
FunctionAssignable_covariantParams(t, other) ==
  IF ~isAssignableTo(t[2], other[2]) THEN FALSE
  ELSE IF Len(t[3]) # Len(other[3]) THEN FALSE
  ELSE ParamsCovariant(t[3], other[3], 1)

\* kind_ == Function && other.kind_ == Function (lines 138-158)
FunctionAssignable(t, other) ==
  IF ~isAssignableTo(t[2], other[2]) THEN FALSE
  ELSE IF Len(t[3]) # Len(other[3]) THEN FALSE
  ELSE ParamsContravariant(t[3], other[3], 1)

\* the rules below the Error check (lines 106-161)
StructurallyAssignable(t, other) ==
  IF getKind(other) = "Union"
    THEN isAssignableTo(t, other[2]) \/ isAssignableTo(t, other[3])
  ELSE IF getKind(t) = "Int" /\ getKind(other) = "Float" THEN TRUE
  ELSE IF getKind(t) = "Smart" /\ getKind(other) = "Smart" /\ t[3] = other[3]
    THEN isAssignableTo(t[2], other[2])
  ELSE IF getKind(t) = "Smart" /\ getKind(other) = "Smart"
          /\ t[3] = "Shared" /\ other[3] = "Weak"
    THEN isAssignableTo(t[2], other[2])
  ELSE IF getKind(t) = "Array" /\ getKind(other) = "Array"
    THEN isAssignableTo(t[2], other[2])
  ELSE IF getKind(t) = "Function" /\ getKind(other) = "Function"
    THEN FunctionAssignable(t, other)
  ELSE FALSE

\* the method without its identical-types shortcut
isAssignableTo_noEquals(t, other) ==
  IF getKind(t) = "Error" \/ getKind(other) = "Error" THEN TRUE
  ELSE StructurallyAssignable(t, other)

\* the method with the Error rule applied to the source only
isAssignableTo_errorSourceOnly(t, other) ==
  IF equals(t, other) THEN TRUE
  ELSE IF getKind(t) = "Error" THEN TRUE
  ELSE StructurallyAssignable(t, other)

isAssignableTo(t, other) ==
  IF equals(t, other) THEN TRUE
  ELSE IF getKind(t) = "Error" \/ getKind(other) = "Error" THEN TRUE
  ELSE StructurallyAssignable(t, other)

(***************************************************************************)
(* ResolvedType::isImplicitlyConvertibleTo (resolved_type.cpp:164-197)     *)
(***************************************************************************)
isImplicitlyConvertibleTo(t, other) ==
  IF isAssignableTo(t, other) THEN TRUE
  ELSE IF getKind(t) = "Int" /\ getKind(other) = "Float" THEN TRUE
  ELSE IF getKind(t) = "Int" /\ getKind(other) = "Bool" THEN TRUE
  ELSE IF getKind(t) = "Float" /\ getKind(other) = "Bool" THEN TRUE
  ELSE IF getKind(t) = "Pointer" /\ getKind(other) = "Bool" THEN TRUE
  ELSE IF getKind(t) = "Smart" /\ getKind(other) = "Bool" THEN TRUE
  ELSE FALSE

(***************************************************************************)
(* ResolvedType::isExplicitlyConvertibleTo (resolved_type.cpp:199-256)     *)
(***************************************************************************)
RECURSIVE isExplicitlyConvertibleTo(_, _)
isExplicitlyConvertibleTo(t, other) ==
  IF isImplicitlyConvertibleTo(t, other) THEN TRUE
  ELSE IF \/ (getKind(t) = "Float" /\ getKind(other) = "Int")
          \/ (getKind(t) = "Int" /\ getKind(other) = "Float") THEN TRUE
  ELSE IF getKind(other) = "String" /\ getKind(t) \in {"Int", "Float", "Bool"} THEN TRUE
  ELSE IF getKind(t) = "Pointer" /\ getKind(other) = "Pointer" THEN TRUE
  ELSE IF getKind(t) = "Pointer" /\ getKind(other) = "Int" THEN TRUE
  ELSE IF getKind(t) = "Int" /\ getKind(other) = "Pointer" THEN TRUE
  ELSE IF getKind(t) = "Smart" /\ getKind(other) = "Smart" THEN TRUE
  ELSE IF \/ (getKind(t) = "Smart" /\ getKind(other) = "Pointer")
          \/ (getKind(t) = "Pointer" /\ getKind(other) = "Smart") THEN TRUE
  ELSE IF getKind(other) = "Union"
    THEN isExplicitlyConvertibleTo(t, other[2]) \/ isExplicitlyConvertibleTo(t, other[3])
  ELSE IF getKind(t) = "Union"
    THEN isExplicitlyConvertibleTo(t[2], other) \/ isExplicitlyConvertibleTo(t[3], other)
  ELSE FALSE

(***************************************************************************)
(* Values of the variables of a component that is not running.             *)
(***************************************************************************)
TypesIdle ==
  /\ ta = Void
  /\ tb = Void
  /\ tOp = "none"
  /\ tRes = FALSE

CheckIdle ==
  /\ currentScope_ = 0
  /\ inLoop_ = FALSE
  /\ currentFunctionReturnType_ = Null
  /\ stack = <<>>
  /\ diagnostics = {}
  /\ success = TRUE
  /\ pc = "idle"
  /\ visited = 0

ParseIdle ==
  /\ units = <<>>
  /\ nodes_ = <<>>
  /\ hadError = FALSE
  /\ visitorAst_ = <<>>
  /\ ast_ = <<>>
  /\ reported = {}
  /\ parsePc = "idle"
  /\ parseResult = FALSE

LowerIdle ==
  /\ lowerAst = <<>>
  /\ lowerPos = 1
  /\ module = <<>>
  /\ topLevelAssemblyStatements_ = <<>>
  /\ topLevelExpressionStatements_ = <<>>
  /\ lowerPc = "idle"
  /\ lowerResult = FALSE

TokensIdle ==
  /\ tokens_ = <<>>
  /\ current_ = 1
  /\ tokenOp = "idle"
  /\ startPos = 1
  /\ parsed = <<"none">>

OptionsIdle ==
  /\ outputFormat_ = "LLVM_IR"
  /\ outputFilename_ = <<>>
  /\ filename = <<>>

PassesIdle ==
  /\ checkNodes = <<>>
  /\ checkIndex = 1
  /\ emitted = <<>>

FlowIdle ==
  /\ lastStmt = "none"
  /\ lastReported = FALSE
  /\ loopsExited = 0

BinaryIdle ==
  /\ binaryOp = "none"
  /\ binaryType = Null

LookaheadIdle ==
  /\ savedPos = 0
  /\ isGenericCall_ = FALSE

LoopsIdle ==
  /\ blockDepth = 0
  /\ syncAtEnd = FALSE
  /\ iteration = [loop |-> "none", from |-> 1]

LocalsIdle ==
  /\ scopes_ = <<>>
  /\ entry = <<>>
  /\ identifier = [name |-> "none"]

LaterIdle == BinaryIdle /\ LookaheadIdle /\ LoopsIdle /\ LocalsIdle

OtherIdle == TokensIdle /\ OptionsIdle /\ PassesIdle /\ FlowIdle /\ LaterIdle


(***************************************************************************)
(* The comparison machine: two resolved types and the predicates applied   *)
(* to them.                                                                *)
(***************************************************************************)
TypesInit ==
  /\ OtherIdle
  /\ ta \in TypeSet
  /\ tb \in TypeSet
  /\ tOp = "none"
  /\ tRes = FALSE
  /\ scopes = <<>>
  /\ found = NoLookup
  /\ CheckIdle
  /\ ParseIdle
  /\ LowerIdle

Equals ==
  /\ UNCHANGED otherVars
  /\ tOp' = "equals"
  /\ tRes' = equals(ta, tb)
  /\ UNCHANGED <<ta, tb, scopeVars, checkVars, parseVars, lowerVars>>

IsAssignableTo ==
  /\ UNCHANGED otherVars
  /\ tOp' = "isAssignableTo"
  /\ tRes' = isAssignableTo(ta, tb)
  /\ UNCHANGED <<ta, tb, scopeVars, checkVars, parseVars, lowerVars>>

IsImplicitlyConvertibleTo ==
  /\ UNCHANGED otherVars
  /\ tOp' = "isImplicitlyConvertibleTo"
  /\ tRes' = isImplicitlyConvertibleTo(ta, tb)
  /\ UNCHANGED <<ta, tb, scopeVars, checkVars, parseVars, lowerVars>>

IsExplicitlyConvertibleTo ==
  /\ UNCHANGED otherVars
  /\ tOp' = "isExplicitlyConvertibleTo"
  /\ tRes' = isExplicitlyConvertibleTo(ta, tb)
  /\ UNCHANGED <<ta, tb, scopeVars, checkVars, parseVars, lowerVars>>

TypesNext ==
  \/ Equals
  \/ IsAssignableTo
  \/ IsImplicitlyConvertibleTo
  \/ IsExplicitlyConvertibleTo

SpecTypes == TypesInit /\ [][TypesNext]_vars

(***************************************************************************)
(* Claims about the type lattice (checked under SpecTypes).                *)
(***************************************************************************)

\* C5: structurally equal types are assignable to each other in both
\* directions, and every resolved type is assignable to itself.
C5_EqualsImpliesAssignable ==
  /\ isAssignableTo(ta, ta)
  /\ equals(ta, tb) => (isAssignableTo(ta, tb) /\ isAssignableTo(tb, ta))
  /\ (tOp = "isAssignableTo" /\ equals(ta, tb)) => tRes

\* two equal unions written in different orders have been found assignable
C5_Witness ==
  /\ tOp = "isAssignableTo"
  /\ getKind(ta) = "Union"
  /\ ta # tb
  /\ equals(ta, tb)
  /\ tRes

\* C6: Error is assignable to every resolved type and every resolved type
\* is assignable to Error.
C6_ErrorAssignableBothWays ==
  /\ isAssignableTo(Error, ta)
  /\ isAssignableTo(ta, Error)
  /\ (tOp = "isAssignableTo" /\ (ta = Error \/ tb = Error)) => tRes

\* a function type has been assigned to Error
C6_Witness ==
  /\ tOp = "isAssignableTo"
  /\ getKind(ta) = "Function"
  /\ tb = Error
  /\ tRes

\* C7: a union equals the union of the same two components in the other
\* order.
C7_UnionCommutes ==
  /\ equals(Union(ta, tb), Union(tb, ta))
  /\ (/\ tOp = "equals"
      /\ getKind(ta) = "Union"
      /\ getKind(tb) = "Union"
      /\ ta[2] = tb[3]
      /\ ta[3] = tb[2]) => tRes

\* int|float has been compared with float|int
C7_Witness ==
  /\ tOp = "equals"
  /\ ta = Union(Int, Float)
  /\ tb = Union(Float, Int)
  /\ tRes

\* the rule of C8 for two function types F and G
FunctionRule(F, G) ==
  /\ Len(F[3]) = Len(G[3])
  /\ isAssignableTo(F[2], G[2])
  /\ \A i \in 1..Len(F[3]) : i \in 1..Len(G[3]) => isAssignableTo(G[3][i], F[3][i])

\* C8: a function type F is assignable to a function type G exactly when
\* the arities match, F's return type is assignable to G's and each
\* parameter type of G is assignable to the corresponding one of F.
C8_FunctionVariance ==
  (getKind(ta) = "Function" /\ getKind(tb) = "Function") =>
    /\ isAssignableTo(ta, tb) <=> FunctionRule(ta, tb)
    /\ tOp = "isAssignableTo" => (tRes <=> FunctionRule(ta, tb))

\* a function taking float has been assigned to a function type taking int
\* (and the opposite direction is refused by the rule)
C8_Witness ==
  /\ tOp = "isAssignableTo"
  /\ ta = Function(Int, <<Float>>)
  /\ tb = Function(Float, <<Int>>)
  /\ tRes
  /\ ~isAssignableTo(tb, ta)

(***************************************************************************)
(* TypeScope (type_scope.h, type_scope.cpp): a scope knows its parent and  *)
(* holds three maps from names to resolved types.                          *)
(***************************************************************************)
\* TypeScope::TypeScope(parent)
NewTypeScope(parent) ==
  [parent_ |-> parent, variables_ |-> EmptyMap, functions_ |-> EmptyMap, types_ |-> EmptyMap]

\* TypeScope::declareVariable / declareFunction / declareType: map[name] = type
declareVariable(ss, s, name, type) ==
  [ss EXCEPT ![s].variables_ = (name :> type) @@ @]
declareFunction(ss, s, name, type) ==
  [ss EXCEPT ![s].functions_ = (name :> type) @@ @]
declareType(ss, s, name, type) ==
  [ss EXCEPT ![s].types_ = (name :> type) @@ @]

\* a lookup that never consults the parent scope
lookupVariable_localOnly(ss, s, name) ==
  IF name \in DOMAIN ss[s].variables_ THEN ss[s].variables_[name] ELSE Null

\* TypeScope::lookupVariable: this scope first, then the parent chain
RECURSIVE lookupVariable(_, _, _)
lookupVariable(ss, s, name) ==
  IF name \in DOMAIN ss[s].variables_ THEN ss[s].variables_[name]
  ELSE IF ss[s].parent_ # 0 THEN lookupVariable(ss, ss[s].parent_, name)
  ELSE Null

\* TypeScope::lookupFunction
RECURSIVE lookupFunction(_, _, _)
lookupFunction(ss, s, name) ==
  IF name \in DOMAIN ss[s].functions_ THEN ss[s].functions_[name]
  ELSE IF ss[s].parent_ # 0 THEN lookupFunction(ss, ss[s].parent_, name)
  ELSE Null

\* TypeScope::lookupType
RECURSIVE lookupType(_, _, _)
lookupType(ss, s, name) ==
  IF name \in DOMAIN ss[s].types_ THEN ss[s].types_[name]
  ELSE IF ss[s].parent_ # 0 THEN lookupType(ss, ss[s].parent_, name)
  ELSE Null

\* TypeScope::createChildScope: a new scope whose parent is s
createChildScope(ss, s) == Append(ss, NewTypeScope(s))

(***************************************************************************)
(* The scope machine: a tree of scopes grown and queried through the       *)
(* TypeScope interface.                                                    *)
(***************************************************************************)
VarNames == {"x", "y"}
ScopeTypes == {Int, String}

ScopeInit ==
  /\ OtherIdle
  /\ scopes = <<NewTypeScope(0)>>
  /\ found = NoLookup
  /\ ta = Void
  /\ tb = Void
  /\ tOp = "none"
  /\ tRes = FALSE
  /\ CheckIdle
  /\ ParseIdle
  /\ LowerIdle

CreateChildScope ==
  /\ UNCHANGED otherVars
  /\ Len(scopes) < MaxScopes
  /\ \E s \in 1..Len(scopes) : scopes' = createChildScope(scopes, s)
  /\ found' = NoLookup
  /\ UNCHANGED <<typeVars, checkVars, parseVars, lowerVars>>

DeclareVariable ==
  /\ UNCHANGED otherVars
  /\ \E s \in 1..Len(scopes), n \in VarNames, t \in ScopeTypes :
       scopes' = declareVariable(scopes, s, n, t)
  /\ found' = NoLookup
  /\ UNCHANGED <<typeVars, checkVars, parseVars, lowerVars>>

LookupVariable ==
  /\ UNCHANGED otherVars
  /\ \E s \in 1..Len(scopes), n \in VarNames :
       found' = [scope |-> s, map |-> "variables", name |-> n,
                 result |-> lookupVariable(scopes, s, n)]
  /\ UNCHANGED <<scopes, typeVars, checkVars, parseVars, lowerVars>>

ScopeNext ==
  \/ CreateChildScope
  \/ DeclareVariable
  \/ LookupVariable

SpecScope == ScopeInit /\ [][ScopeNext]_vars

\* the scopes from s up to the root, s first
RECURSIVE PathToRoot(_, _)
PathToRoot(ss, s) ==
  IF ss[s].parent_ = 0 THEN <<s>> ELSE <<s>> \o PathToRoot(ss, ss[s].parent_)

\* what a lookup of n from scope d has to return: the entry of the first
\* scope on the path to the root that declares n
NearestDeclaration(ss, d, n) ==
  LET path == PathToRoot(ss, d)
      hits == {i \in 1..Len(path) : n \in DOMAIN ss[path[i]].variables_}
  IN IF hits = {} THEN Null
     ELSE LET k == CHOOSE i \in hits : \A j \in hits : i <= j
          IN ss[path[k]].variables_[n]

\* C9: a name declared in scope S is found from S and from every descendant
\* of S, with the type of the nearest declaration on the way to the root.
C9_LookupFindsNearest ==
  /\ \A s \in 1..Len(scopes) : \A n \in DOMAIN scopes[s].variables_ :
       \A d \in 1..Len(scopes) :
         (\E i \in 1..Len(PathToRoot(scopes, d)) : PathToRoot(scopes, d)[i] = s) =>
           /\ lookupVariable(scopes, d, n) # Null
           /\ lookupVariable(scopes, d, n) = NearestDeclaration(scopes, d, n)
  /\ found.map = "variables" =>
       found.result = NearestDeclaration(scopes, found.scope, found.name)

\* a lookup of x from a grandchild scope has returned the child's
\* declaration, which shadows the root's declaration of another type
C9_Witness ==
  /\ found.map = "variables"
  /\ found.name = "x"
  /\ found.result = String
  /\ Len(PathToRoot(scopes, found.scope)) = 3
  /\ "x" \notin DOMAIN scopes[found.scope].variables_
  /\ "x" \in DOMAIN scopes[scopes[found.scope].parent_].variables_
  /\ "x" \in DOMAIN scopes[1].variables_
  /\ scopes[1].variables_["x"] = Int

(***************************************************************************)
(* TypeCheckVisitor (type_check_visitor.cpp).  The visitor walks the AST   *)
(* depth first; the walk is modelled one node at a time, the nodes being   *)
(* chosen as the walk reaches them.  A compound node (block, while, for-of,*)
(* function declaration) is a Begin step, the steps of its body, and an    *)
(* End step; the frames of the compound nodes in progress are in stack.    *)
(* Loop and function bodies are blocks.                                    *)
(***************************************************************************)
\* most nodes visited in one check
MaxNodes == 3
\* deepest nesting of compound nodes
MaxDepth == 2

FuncNames == {"f"}
ClassNames == {"A"}

\* TypeCheckVisitor::error / warning hand the message to the reporter
Diagnostic(severity, message) == [severity |-> severity, message |-> message]
error(d, message) == d \cup {Diagnostic("error", message)}
warning(d, message) == d \cup {Diagnostic("warning", message)}

\* the global scope the constructor builds
GlobalScope ==
  [NewTypeScope(0) EXCEPT !.types_ =
     ("void" :> Void) @@ ("int" :> Int) @@ ("float" :> Float) @@
     ("bool" :> Bool) @@ ("string" :> String)]

\* enterScope: currentScope_ = currentScope_->createChildScope()
enterScope(ss, cur) ==
  [scopes |-> createChildScope(ss, cur), currentScope_ |-> Len(ss) + 1]

\* exitScope: the code creates one child to test it for null (dropped at   
\* once, so it never joins the live scopes) and a second one that becomes  
\* currentScope_; it never moves to parent_.                                
exitScope(ss, cur) ==
  [scopes |-> createChildScope(ss, cur), currentScope_ |-> Len(ss) + 1]

\* expressions the walk can meet: an integer literal, an identifier, an
\* array literal of one integer literal
NoExpr == <<"none">>
Literals == {<<"Literal", Int>>}
Identifiers == {<<"Identifier", n>> : n \in VarNames \cup FuncNames}
Exprs == Literals \cup Identifiers \cup {<<"ArrayLiteral", l>> : l \in Literals}

visitIdentifierExpr(name, ss, cur, d) ==
  LET varType == lookupVariable(ss, cur, name)
      funType == lookupFunction(ss, cur, name)
  IN  IF getKind(varType) # "nullptr" THEN [type |-> varType, diagnostics |-> d]
      ELSE IF getKind(funType) # "nullptr"
        THEN [type |-> funType, diagnostics |-> d]
      ELSE [type |-> Error,
            diagnostics |-> error(d, "Undefined identifier: " \o name)]

RECURSIVE visitExpr(_, _, _, _)
visitExpr(e, ss, cur, d) ==
  CASE e[1] = "Literal" -> [type |-> e[2], diagnostics |-> d]
    [] e[1] = "Identifier" -> visitIdentifierExpr(e[2], ss, cur, d)
    [] e[1] = "ArrayLiteral" ->
         LET el == visitExpr(e[2], ss, cur, d)
         IN  [type |-> Array(el.type), diagnostics |-> el.diagnostics]

checkAssignmentCompatibility(targetType, valueType, d) ==
  IF isAssignableTo(valueType, targetType)
    THEN [ok |-> TRUE, diagnostics |-> d]
    ELSE [ok |-> FALSE, diagnostics |-> error(d, "Cannot assign")]

\* visitVarDecl; declaredType and init are Null / NoExpr when absent
visitVarDecl(name, declaredType, init, ss, cur, d) ==
  LET i == IF init[1] = "none" THEN [type |-> Null, diagnostics |-> d]
           ELSE visitExpr(init, ss, cur, d)
      hasDecl == getKind(declaredType) # "nullptr"
      hasInit == getKind(i.type) # "nullptr"
      c == IF hasDecl /\ hasInit
             THEN checkAssignmentCompatibility(declaredType, i.type, i.diagnostics)
             ELSE [ok |-> TRUE, diagnostics |-> i.diagnostics]
  IN  IF hasDecl /\ ~c.ok
        THEN [type |-> Error, scopes |-> ss,
              diagnostics |->
                error(c.diagnostics, "Initializer type doesn't match variable type")]
      ELSE IF hasDecl
        THEN [type |-> declaredType,
              scopes |-> declareVariable(ss, cur, name, declaredType),
              diagnostics |-> c.diagnostics]
      ELSE IF hasInit
        THEN [type |-> i.type,
              scopes |-> declareVariable(ss, cur, name, i.type),
              diagnostics |-> i.diagnostics]
      ELSE [type |-> Error, scopes |-> ss,
            diagnostics |->
              error(d, "Variable declaration needs either a type or an initializer for type inference")]

\* checkAST, second pass: success = false when the type a top-level visit
\* returns has kind Error; what a nested visit returns is dropped
Returned(type) ==
  IF stack = <<>> /\ getKind(type) = "Error" THEN FALSE ELSE success

\* a visit in progress on a compound node: the node's kind, the visit's
\* local wasInLoop and, for a function, the return type the node declares
\* (Null for the other kinds)
Frame(kind, wasInLoop, returnType) ==
  [kind |-> kind, wasInLoop |-> wasInLoop, returnType |-> returnType]
Top == stack[Len(stack)]
Pop == SubSeq(stack, 1, Len(stack) - 1)
CanVisit == pc = "pass2" /\ visited < MaxNodes
CanNest == CanVisit /\ Len(stack) < MaxDepth


CheckInit ==
  /\ OtherIdle
  /\ scopes = <<GlobalScope>>
  /\ found = NoLookup
  /\ currentScope_ = 1
  /\ inLoop_ = FALSE
  /\ currentFunctionReturnType_ = Null
  /\ stack = <<>>
  /\ diagnostics = {}
  /\ success = TRUE
  /\ pc = "pass1"
  /\ visited = 0
  /\ TypesIdle
  /\ ParseIdle
  /\ LowerIdle

\* first pass over a class declaration (no members): visitClassDecl, then
\* declareType on whatever scope is current afterwards
VisitClassDecl ==
  /\ UNCHANGED otherVars
  /\ pc = "pass1"
  /\ visited < MaxNodes
  /\ \E name \in ClassNames :
       LET en == enterScope(scopes, currentScope_)
           ex == exitScope(en.scopes, en.currentScope_)
       IN  /\ scopes' = declareType(ex.scopes, ex.currentScope_, name, Named(name))
           /\ currentScope_' = ex.currentScope_
  /\ visited' = visited + 1
  /\ UNCHANGED <<found, inLoop_, currentFunctionReturnType_, stack, diagnostics,
                 success, pc, typeVars, parseVars, lowerVars>>

SecondPass ==
  /\ UNCHANGED otherVars
  /\ pc = "pass1"
  /\ pc' = "pass2"
  /\ UNCHANGED <<scopeVars, currentScope_, inLoop_, currentFunctionReturnType_,
                 stack, diagnostics, success, visited, typeVars, parseVars,
                 lowerVars>>

VisitVarDecl ==
  /\ UNCHANGED otherVars
  /\ CanVisit
  /\ \E name \in VarNames, declaredType \in {Null, Int}, init \in Exprs \cup {NoExpr} :
       LET r == visitVarDecl(name, declaredType, init, scopes, currentScope_,
                             diagnostics)
       IN  /\ scopes' = r.scopes
           /\ diagnostics' = r.diagnostics
           /\ success' = Returned(r.type)
  /\ visited' = visited + 1
  /\ UNCHANGED <<found, currentScope_, inLoop_, currentFunctionReturnType_, stack,
                 pc, typeVars, parseVars, lowerVars>>

VisitExprStmt ==
  /\ UNCHANGED otherVars
  /\ CanVisit
  /\ \E e \in Exprs :
       diagnostics' = visitExpr(e, scopes, currentScope_, diagnostics).diagnostics
  /\ visited' = visited + 1
  /\ UNCHANGED <<scopeVars, currentScope_, inLoop_, currentFunctionReturnType_,
                 stack, success, pc, typeVars, parseVars, lowerVars>>

VisitBreakStmt ==
  /\ UNCHANGED otherVars
  /\ CanVisit
  /\ diagnostics' = IF ~inLoop_
                      THEN error(diagnostics, "Break statement must be inside a loop")
                      ELSE diagnostics
  /\ success' = Returned(Void)
  /\ visited' = visited + 1
  /\ UNCHANGED <<scopeVars, currentScope_, inLoop_, currentFunctionReturnType_,
                 stack, pc, typeVars, parseVars, lowerVars>>

\* visitReturnStmt of a return with the given value (NoExpr without one)
visitReturnStmt(value) ==
  LET v == IF value[1] = "none" THEN [type |-> Void, diagnostics |-> diagnostics]
           ELSE visitExpr(value, scopes, currentScope_, diagnostics)
  IN  diagnostics' =
        IF /\ getKind(currentFunctionReturnType_) # "nullptr"
           /\ ~isAssignableTo(v.type, currentFunctionReturnType_)
          THEN error(v.diagnostics,
                     "Return value type doesn't match function return type")
          ELSE v.diagnostics

VisitReturnStmt ==
  /\ UNCHANGED otherVars
  /\ CanVisit
  /\ \E value \in Literals \cup {NoExpr} : visitReturnStmt(value)
  /\ success' = Returned(Void)
  /\ visited' = visited + 1
  /\ UNCHANGED <<scopeVars, currentScope_, inLoop_, currentFunctionReturnType_,
                 stack, pc, typeVars, parseVars, lowerVars>>

BeginBlock ==
  /\ UNCHANGED otherVars
  /\ CanNest
  /\ LET en == enterScope(scopes, currentScope_)
     IN  /\ scopes' = en.scopes
         /\ currentScope_' = en.currentScope_
  /\ stack' = Append(stack, Frame("Block", inLoop_, Null))
  /\ visited' = visited + 1
  /\ UNCHANGED <<found, inLoop_, currentFunctionReturnType_, diagnostics, success,
                 pc, typeVars, parseVars, lowerVars>>

EndBlock ==
  /\ UNCHANGED otherVars
  /\ pc = "pass2"
  /\ stack # <<>>
  /\ Top.kind = "Block"
  /\ LET ex == exitScope(scopes, currentScope_)
     IN  /\ scopes' = ex.scopes
         /\ currentScope_' = ex.currentScope_
  /\ stack' = Pop
  /\ UNCHANGED <<found, inLoop_, currentFunctionReturnType_, diagnostics, success,
                 pc, visited, typeVars, parseVars, lowerVars>>


\* visitWhileStmt up to the body, and the body block's enterScope
BeginWhile ==
  /\ UNCHANGED otherVars
  /\ CanNest
  /\ \E cond \in Exprs :
       LET c == visitExpr(cond, scopes, currentScope_, diagnostics)
       IN  diagnostics' =
             IF ~isImplicitlyConvertibleTo(c.type, Bool)
               THEN error(c.diagnostics,
                          "While condition must be convertible to boolean")
               ELSE c.diagnostics
  /\ inLoop_' = TRUE
  /\ LET en == enterScope(scopes, currentScope_)
     IN  /\ scopes' = en.scopes
         /\ currentScope_' = en.currentScope_
  /\ stack' = Append(stack, Frame("While", inLoop_, Null))
  /\ visited' = visited + 1
  /\ UNCHANGED <<found, currentFunctionReturnType_, success, pc, typeVars,
                 parseVars, lowerVars>>

\* the body block's exitScope, then inLoop_ = wasInLoop
EndWhile ==
  /\ UNCHANGED otherVars
  /\ pc = "pass2"
  /\ stack # <<>>
  /\ Top.kind = "While"
  /\ LET ex == exitScope(scopes, currentScope_)
     IN  /\ scopes' = ex.scopes
         /\ currentScope_' = ex.currentScope_
  /\ inLoop_' = Top.wasInLoop
  /\ stack' = Pop
  /\ UNCHANGED <<found, currentFunctionReturnType_, diagnostics, success, pc,
                 visited, typeVars, parseVars, lowerVars>>

\* visitForOfStmt up to the body, and the body block's enterScope
BeginForOf ==
  /\ UNCHANGED otherVars
  /\ CanNest
  /\ \E name \in VarNames, iterable \in Exprs :
       LET en == enterScope(scopes, currentScope_)
           it == visitExpr(iterable, en.scopes, en.currentScope_, diagnostics)
           isArray == getKind(it.type) = "Array"
           elementType == IF isArray THEN it.type[2] ELSE Error
           declared == declareVariable(en.scopes, en.currentScope_, name,
                                       elementType)
           body == enterScope(declared, en.currentScope_)
       IN  /\ diagnostics' = IF ~isArray
                               THEN warning(it.diagnostics,
                                            "For-of requires an iterable type")
                               ELSE it.diagnostics
           /\ scopes' = body.scopes
           /\ currentScope_' = body.currentScope_
  /\ inLoop_' = TRUE
  /\ stack' = Append(stack, Frame("ForOf", inLoop_, Null))
  /\ visited' = visited + 1
  /\ UNCHANGED <<found, currentFunctionReturnType_, success, pc, typeVars,
                 parseVars, lowerVars>>

\* the body block's exitScope, inLoop_ = wasInLoop, the statement's exitScope
EndForOf ==
  /\ UNCHANGED otherVars
  /\ pc = "pass2"
  /\ stack # <<>>
  /\ Top.kind = "ForOf"
  /\ LET body == exitScope(scopes, currentScope_)
         ex == exitScope(body.scopes, body.currentScope_)
     IN  /\ scopes' = ex.scopes
         /\ currentScope_' = ex.currentScope_
  /\ inLoop_' = Top.wasInLoop
  /\ stack' = Pop
  /\ UNCHANGED <<found, currentFunctionReturnType_, diagnostics, success, pc,
                 visited, typeVars, parseVars, lowerVars>>

\* visitFuncDecl of a function without parameters, up to its body:
\* declareFunction, enterFunctionScope, the body block's enterScope
BeginFuncDecl ==
  /\ UNCHANGED otherVars
  /\ CanNest
  /\ \E name \in FuncNames, returnType \in {Void, Int} :
       LET functionType == Function(returnType, <<>>)
           declared == declareFunction(scopes, currentScope_, name, functionType)
           en == enterScope(declared, currentScope_)
           body == enterScope(en.scopes, en.currentScope_)
       IN  /\ scopes' = body.scopes
           /\ currentScope_' = body.currentScope_
           /\ currentFunctionReturnType_' = returnType
           /\ stack' = Append(stack, Frame("FuncDecl", inLoop_, returnType))
  /\ visited' = visited + 1
  /\ UNCHANGED <<found, inLoop_, diagnostics, success, pc, typeVars, parseVars,
                 lowerVars>>

\* the body block's exitScope, then exitFunctionScope
EndFuncDecl ==
  /\ UNCHANGED otherVars
  /\ pc = "pass2"
  /\ stack # <<>>
  /\ Top.kind = "FuncDecl"
  /\ LET body == exitScope(scopes, currentScope_)
         ex == exitScope(body.scopes, body.currentScope_)
     IN  /\ scopes' = ex.scopes
         /\ currentScope_' = ex.currentScope_
  /\ currentFunctionReturnType_' = Null
  /\ stack' = Pop
  /\ UNCHANGED <<found, inLoop_, diagnostics, success, pc, visited, typeVars,
                 parseVars, lowerVars>>

\* checkAST returns success
ReturnSuccess ==
  /\ UNCHANGED otherVars
  /\ pc = "pass2"
  /\ stack = <<>>
  /\ pc' = "done"
  /\ UNCHANGED <<scopeVars, currentScope_, inLoop_, currentFunctionReturnType_,
                 stack, diagnostics, success, visited, typeVars, parseVars,
                 lowerVars>>

CheckNext ==
  \/ VisitClassDecl
  \/ SecondPass
  \/ VisitVarDecl
  \/ VisitExprStmt
  \/ VisitBreakStmt
  \/ VisitReturnStmt
  \/ BeginBlock
  \/ EndBlock
  \/ BeginWhile
  \/ EndWhile
  \/ BeginForOf
  \/ EndForOf
  \/ BeginFuncDecl
  \/ EndFuncDecl
  \/ ReturnSuccess

SpecCheck == CheckInit /\ [][CheckNext]_vars

\* scopes a compound node enters before its body and exits after it
ScopesOpened(kind) ==
  CASE kind = "Block" -> 1
    [] kind = "While" -> 1
    [] kind = "ForOf" -> 2
    [] kind = "FuncDecl" -> 2

RECURSIVE Ancestor(_, _, _)
Ancestor(ss, s, n) ==
  IF n = 0 \/ s = 0 THEN s ELSE Ancestor(ss, ss[s].parent_, n - 1)

HasError == \E d \in diagnostics : d.severity = "error"

\* C1: when the visit of a block, loop or function ends, the current scope
\* is again the parent of the scope being exited (the scope that was
\* current before the node was entered).
C1_ExitRestoresParent ==
  [][Len(stack') < Len(stack) =>
       currentScope_' = Ancestor(scopes, currentScope_, ScopesOpened(Top.kind))]_vars

\* C2: a finished check that emitted an error diagnostic, at any depth,
\* returns false.
C2_ErrorFailsCheck == (pc = "done" /\ HasError) => ~success

\* C3: a finished check returns false only if it emitted an error
\* diagnostic; warnings alone leave success true.
C3_FailureNeedsError == (pc = "done" /\ ~success) => HasError


(***************************************************************************)
(* The parse pipeline: Parser::parse (parser.cpp) calls                    *)
(* BaseVisitor::compile (base_visitor.h), which runs                       *)
(* BaseParseVisitor::visitParse (base_parse_visitor.cpp) and then the type *)
(* check.  The token stream is the sequence of its top-level units: a unit *)
(* either parses to a node or fails with a syntax error, after which       *)
(* synchronize skips to the next unit.                                     *)
(***************************************************************************)
\* most top-level units in one input
MaxUnits == 3

\* "ok": parses, checks without diagnostics;  "bad": syntax error;
\* "illTyped": parses, its top-level visit reports an error and returns the
\* Error type;  "erroneous": parses, its visit reports an error but
\* returns another type
UnitKinds == {"ok", "bad", "illTyped", "erroneous"}

\* ErrorReporter::hasErrors
hasErrors(r) == \E d \in r : d.severity = "error"

ParseInit ==
  /\ OtherIdle
  /\ units \in SeqsUpTo(UnitKinds, MaxUnits)
  /\ nodes_ = <<>>
  /\ hadError = FALSE
  /\ visitorAst_ = <<>>
  /\ ast_ = <<>>
  /\ reported = {}
  /\ parsePc = "parsing"
  /\ parseResult = FALSE
  /\ scopes = <<>>
  /\ found = NoLookup
  /\ TypesIdle
  /\ CheckIdle
  /\ LowerIdle

\* one iteration of visitParse's loop
ParseUnit ==
  /\ UNCHANGED otherVars
  /\ parsePc = "parsing"
  /\ units # <<>>
  /\ IF Head(units) = "bad"
       THEN /\ hadError' = TRUE
            /\ reported' = error(reported, "syntax error")
            /\ UNCHANGED nodes_
       ELSE /\ nodes_' = Append(nodes_, Head(units))
            /\ UNCHANGED <<hadError, reported>>
  /\ units' = Tail(units)
  /\ UNCHANGED <<visitorAst_, ast_, parsePc, parseResult, typeVars, scopeVars,
                 checkVars, lowerVars>>

\* visitParse returns !hadError; BaseVisitor::parse copies the nodes only
\* on success; on failure compile and Parser::parse return false
VisitorParse ==
  /\ UNCHANGED otherVars
  /\ parsePc = "parsing"
  /\ units = <<>>
  /\ IF ~hadError
       THEN /\ visitorAst_' = visitorAst_ \o nodes_
            /\ parsePc' = "parsed"
       ELSE /\ parsePc' = "done"
            /\ UNCHANGED visitorAst_
  /\ parseResult' = FALSE
  /\ UNCHANGED <<units, nodes_, hadError, ast_, reported, typeVars, scopeVars,
                 checkVars, lowerVars>>

\* what checkAST does with the nodes of the AST
CheckReports(a) ==
  IF \E i \in 1..Len(a) : a[i] \in {"illTyped", "erroneous"}
    THEN {Diagnostic("error", "type error")} ELSE {}
CheckSucceeds(a) == \A i \in 1..Len(a) : a[i] # "illTyped"

\* BaseVisitor::typeCheck; when it fails compile and Parser::parse return
\* false
TypeCheck ==
  /\ UNCHANGED otherVars
  /\ parsePc = "parsed"
  /\ IF visitorAst_ = <<>>
       THEN /\ reported' = error(reported,
                 "Cannot perform type checking without a parsed AST")
            /\ parsePc' = "done"
       ELSE /\ reported' = reported \cup CheckReports(visitorAst_)
            /\ parsePc' = IF CheckSucceeds(visitorAst_) THEN "checked" ELSE "done"
  /\ UNCHANGED <<units, nodes_, hadError, visitorAst_, ast_, parseResult,
                 typeVars, scopeVars, checkVars, lowerVars>>

\* Parser::parse after a successful compile
ParserReturn ==
  /\ UNCHANGED otherVars
  /\ parsePc = "checked"
  /\ ast_' = visitorAst_
  /\ parseResult' = ~hasErrors(reported)
  /\ parsePc' = "done"
  /\ UNCHANGED <<units, nodes_, hadError, visitorAst_, reported, typeVars,
                 scopeVars, checkVars, lowerVars>>

ParseNext ==
  \/ ParseUnit
  \/ VisitorParse
  \/ TypeCheck
  \/ ParserReturn

SpecParse == ParseInit /\ [][ParseNext]_vars

\* C4: after a parse that met syntax errors, every top-level node that did
\* parse is in the AST the parser hands out.
C4_AstKeptOnSyntaxErrors ==
  (parsePc = "done" /\ hadError) =>
    \A i \in 1..Len(nodes_) : \E j \in 1..Len(ast_) : ast_[j] = nodes_[i]


(***************************************************************************)
(* LLVMCodeGen::generateCode (llvm_code_gen.cpp).  The module is the list  *)
(* of its global values; functions and global variables share one symbol   *)
(* table, and a value created under a name already in the table is given   *)
(* the name with the next unused numeric suffix.  A name is <<base, n>>,   *)
(* n = 0 for the bare name and n > 0 for "base.n".  The body of a function *)
(* is the list of the instructions emitted into its entry block; <<>> is a *)
(* declaration without a body.                                             *)
(***************************************************************************)
\* most top-level nodes in one AST handed to the lowerer
MaxTopLevel == 3

LowerNames == {"main", "f"}
ExternalNames == <<"printf", "puts", "malloc", "free">>

\* a function declaration's body: absent, an empty block, or a block
\* holding one return statement
NoBody == <<"none">>
Bodies == {NoBody, <<"Block", <<>>>>, <<"Block", <<"ReturnStmt">>>>}

\* <<"FunctionDecl", name, verifies, declared return type, body>>; verifies
\* says whether the emitted body passes the verifier
FunctionDecls ==
  {<<"FunctionDecl", n, TRUE, r, NoBody>> : n \in LowerNames, r \in {"void", "int"}}
  \cup
  {<<"FunctionDecl", n, v, r, b>> :
     n \in LowerNames, v \in BOOLEAN, r \in {"void", "int"}, b \in Bodies \ {NoBody}}

\* top-level nodes: a function declaration, a variable declaration, an
\* expression statement, an inline-assembly statement, a class declaration
LowerNodes ==
  FunctionDecls \cup
  {<<"VarDecl", n>> : n \in LowerNames} \cup
  {<<"ExpressionStmt">>, <<"AssemblyStmt">>, <<"ClassDecl">>}

GlobalValue(kind, name, verifies, body) ==
  [kind |-> kind, name |-> name, verifies |-> verifies, body |-> body]

\* Module::getFunction / getGlobalVariable: the value of that name, if it
\* is of the kind asked for
getNamedValue(m, name) == {i \in 1..Len(m) : m[i].name = <<name, 0>>}
getFunction(m, name) ==
  {i \in getNamedValue(m, name) : m[i].kind = "function"}
getGlobalVariable(m, name) ==
  {i \in getNamedValue(m, name) : m[i].kind = "variable"}

\* the name a new global value gets in the module's symbol table
UniqueName(m, name) ==
  IF getNamedValue(m, name) = {} THEN <<name, 0>>
  ELSE <<name, 1 + Cardinality({i \in 1..Len(m) : m[i].name[2] > 0})>>

Create(m, kind, name, verifies, body) ==
  Append(m, GlobalValue(kind, UniqueName(m, name), verifies, body))

RECURSIVE declareExternalFunctions(_, _)
declareExternalFunctions(m, i) ==
  IF i > Len(ExternalNames) THEN m
  ELSE declareExternalFunctions(
         IF getFunction(m, ExternalNames[i]) = {}
           THEN Create(m, "function", ExternalNames[i], TRUE, <<>>) ELSE m,
         i + 1)

\* the return type visitFunctionDecl gives the LLVM function: i32, whether
\* or not the node declares a return type and whatever it declares
LoweredReturnType(declared) == "i32"

\* visitStmt inside a function body: visitReturnStmt emits nothing
lowerStmt(stmt) ==
  CASE stmt = "ReturnStmt" -> <<>>
    [] stmt = "ExpressionStmt" -> <<"expr">>
    [] stmt = "AssemblyStmt" -> <<"asm">>

RECURSIVE lowerStmts(_)
lowerStmts(stmts) ==
  IF stmts = <<>> THEN <<>>
  ELSE lowerStmt(Head(stmts)) \o lowerStmts(Tail(stmts))

IsTerminator(instruction) == instruction \in {"ret void", "ret i32 0"}
Terminated(block) == block # <<>> /\ IsTerminator(block[Len(block)])

\* the default return for an unterminated block of a function whose LLVM
\* return type is returnType
DefaultReturn(returnType) ==
  IF returnType = "void" THEN "ret void" ELSE "ret i32 0"

\* the entry block visitFunctionDecl leaves behind for a node with a body
FunctionBody(node) ==
  LET block == lowerStmts(node[5][2])
  IN  IF Terminated(block) THEN block
      ELSE Append(block, DefaultReturn(LoweredReturnType(node[4])))

\* createDefaultMainFunction: the buffered inline-assembly statements, then
\* the buffered expression statements, then return 0
createDefaultMainFunction(m, assemblyStmts, expressionStmts) ==
  Create(m, "function", "main", TRUE,
         lowerStmts(assemblyStmts) \o lowerStmts(expressionStmts)
           \o <<"ret i32 0">>)

LowerInit ==
  /\ OtherIdle
  /\ lowerAst \in SeqsUpTo(LowerNodes, MaxTopLevel)
  /\ lowerPos = 1
  /\ module = <<>>
  /\ topLevelAssemblyStatements_ = <<>>
  /\ topLevelExpressionStatements_ = <<>>
  /\ lowerPc = "declare"
  /\ lowerResult = FALSE
  /\ scopes = <<>>
  /\ found = NoLookup
  /\ TypesIdle
  /\ CheckIdle
  /\ ParseIdle

\* generateCode up to the loop over the top-level nodes
DeclareExternalFunctions ==
  /\ UNCHANGED otherVars
  /\ lowerPc = "declare"
  /\ topLevelAssemblyStatements_' = <<>>
  /\ topLevelExpressionStatements_' = <<>>
  /\ module' = declareExternalFunctions(module, 1)
  /\ lowerPc' = "visit"
  /\ UNCHANGED <<lowerAst, lowerPos, lowerResult, typeVars, scopeVars,
                 checkVars, parseVars>>

\* a failed visit makes generateCode report and return false
Failed(message) ==
  /\ reported' = error(error(reported, message),
                       "Failed to process top-level declaration")
  /\ lowerPc' = "done"
  /\ lowerResult' = FALSE
  /\ UNCHANGED <<module, topLevelAssemblyStatements_,
                 topLevelExpressionStatements_>>

visitFunctionDecl(node) ==
  IF getFunction(module, node[2]) # {}
    THEN Failed("Function already declared")
    ELSE /\ module' = Create(module, "function", node[2], node[3],
                             IF node[5] = NoBody THEN <<>>
                             ELSE FunctionBody(node))
         /\ UNCHANGED <<topLevelAssemblyStatements_,
                        topLevelExpressionStatements_, lowerPc, lowerResult,
                        reported>>

visitGlobalVarDecl(node) ==
  IF getGlobalVariable(module, node[2]) # {}
    THEN Failed("Global variable already declared")
    ELSE /\ module' = Create(module, "variable", node[2], TRUE, <<>>)
         /\ UNCHANGED <<topLevelAssemblyStatements_,
                        topLevelExpressionStatements_, lowerPc, lowerResult,
                        reported>>

\* an inline-assembly statement and an expression statement are buffered,
\* each in its own list
visitTopLevelStatement(node) ==
  /\ IF node[1] = "AssemblyStmt"
       THEN /\ topLevelAssemblyStatements_' =
                 Append(topLevelAssemblyStatements_, node[1])
            /\ UNCHANGED topLevelExpressionStatements_
       ELSE /\ topLevelExpressionStatements_' =
                 Append(topLevelExpressionStatements_, node[1])
            /\ UNCHANGED topLevelAssemblyStatements_
  /\ UNCHANGED <<module, lowerPc, lowerResult, reported>>

\* one iteration of the loop over ast.getNodes()
VisitTopLevelDeclaration ==
  /\ UNCHANGED otherVars
  /\ lowerPc = "visit"
  /\ lowerPos <= Len(lowerAst)
  /\ LET node == lowerAst[lowerPos]
     IN  CASE node[1] = "FunctionDecl" -> visitFunctionDecl(node)
           [] node[1] = "VarDecl" -> visitGlobalVarDecl(node)
           [] node[1] \in {"ExpressionStmt", "AssemblyStmt"} ->
                visitTopLevelStatement(node)
           [] node[1] = "ClassDecl" ->
                UNCHANGED <<module, topLevelAssemblyStatements_,
                            topLevelExpressionStatements_, lowerPc,
                            lowerResult, reported>>
  /\ lowerPos' = lowerPos + 1
  /\ UNCHANGED <<lowerAst, units, nodes_, hadError, visitorAst_, ast_, parsePc,
                 parseResult, typeVars, scopeVars, checkVars>>

\* after the loop: module.getFunction("main"), else createDefaultMainFunction
EnsureMain ==
  /\ UNCHANGED otherVars
  /\ lowerPc = "visit"
  /\ lowerPos > Len(lowerAst)
  /\ module' = IF getFunction(module, "main") = {}
                 THEN createDefaultMainFunction(module,
                        topLevelAssemblyStatements_,
                        topLevelExpressionStatements_)
                 ELSE module
  /\ lowerPc' = "verify"
  /\ UNCHANGED <<lowerAst, lowerPos, topLevelAssemblyStatements_,
                 topLevelExpressionStatements_, lowerResult, typeVars,
                 scopeVars, checkVars, parseVars>>

\* verifyFunction over every function of the module, then return
VerifyFunctions ==
  /\ UNCHANGED otherVars
  /\ lowerPc = "verify"
  /\ LET broken == {i \in 1..Len(module) :
                      module[i].kind = "function" /\ ~module[i].verifies}
     IN  /\ lowerResult' = (broken = {})
         /\ reported' = IF broken = {} THEN reported
                        ELSE error(reported, "Function verification failed")
  /\ lowerPc' = "done"
  /\ UNCHANGED <<lowerAst, lowerPos, module, topLevelAssemblyStatements_,
                 topLevelExpressionStatements_, units, nodes_, hadError,
                 visitorAst_, ast_, parsePc, parseResult, typeVars, scopeVars,
                 checkVars>>

LowerNext ==
  \/ DeclareExternalFunctions
  \/ VisitTopLevelDeclaration
  \/ EnsureMain
  \/ VerifyFunctions

SpecLower == LowerInit /\ [][LowerNext]_vars

\* C10: a lowering run that reports success leaves exactly one function
\* named main in the module.
C10_ExactlyOneMain ==
  (lowerPc = "done" /\ lowerResult) => Cardinality(getFunction(module, "main")) = 1


\* the return the declared return type of a function declaration calls for
ExpectedDefaultReturn(declared) ==
  IF declared = "void" THEN "ret void" ELSE "ret i32 0"

\* C11: every function lowered with a body ends in a return; where the body
\* leaves its block unterminated the return added is a void return when the
\* declared return type is void and a return of the zero value otherwise.
C11_DefaultReturnByDeclaredType ==
  [][(/\ lowerPc = "visit"
      /\ lowerPos <= Len(lowerAst)
      /\ lowerAst[lowerPos][1] = "FunctionDecl"
      /\ lowerAst[lowerPos][5] # NoBody
      /\ Len(module') = Len(module) + 1)
     => LET body == module'[Len(module')].body
        IN  /\ Terminated(body)
            /\ body[Len(body)] = ExpectedDefaultReturn(lowerAst[lowerPos][4])]_vars


\* the top-level expression and inline-assembly statements of the AST, in
\* source order
RECURSIVE TopLevelStatements(_)
TopLevelStatements(ast) ==
  IF ast = <<>> THEN <<>>
  ELSE (IF Head(ast)[1] \in {"ExpressionStmt", "AssemblyStmt"}
          THEN <<Head(ast)[1]>> ELSE <<>>)
       \o TopLevelStatements(Tail(ast))

DeclaresMain(ast) ==
  \E i \in 1..Len(ast) : ast[i][1] = "FunctionDecl" /\ ast[i][2] = "main"

\* C12: when the program declares no main, the synthesized main holds the
\* lowering of the buffered top-level expression and inline-assembly
\* statements in source order, interleaved as written, then a return of
\* integer zero.
C12_SynthesizedMainInSourceOrder ==
  (lowerPc \in {"verify", "done"} /\ lowerPos > Len(lowerAst)
     /\ ~DeclaresMain(lowerAst))
  => \A i \in getFunction(module, "main") :
       module[i].body = lowerStmts(TopLevelStatements(lowerAst)) \o <<"ret i32 0">>


\* C19: a failure while lowering one top-level node is recorded as a
\* diagnostic and lowering goes on with the next top-level node, so a run
\* ends only after every top-level node has been visited.
C19_LoweringContinuesAfterFailure ==
  lowerPc = "done" => lowerPos > Len(lowerAst)


(***************************************************************************)
(* The token cursor (TokenStream) and the expression parser on top of it   *)
(* (ExpressionParseVisitor, PrimaryExpressionVisitor).  A token is         *)
(* <<kind, lexeme>>; a parse operation takes the token sequence and the    *)
(* cursor and returns the node it built (Null on a failure) and the cursor *)
(* it leaves behind.                                                       *)
(***************************************************************************)
\* most tokens in one token sequence
MaxTokens == 7

EndOfFile == <<"END_OF_FILE", "">>

\* the cursor operations
peek(ts, pos) == IF pos > Len(ts) THEN EndOfFile ELSE ts[pos]
previous(ts, pos) == ts[pos - 1]
isAtEnd(ts, pos) == peek(ts, pos)[1] = "END_OF_FILE"
advance(ts, pos) == IF isAtEnd(ts, pos) THEN pos ELSE pos + 1
check(ts, pos, kind) == ~isAtEnd(ts, pos) /\ peek(ts, pos)[1] = kind

\* what a parse operation hands back: the node (or list) it built, or a
\* null pointer after a reported error, and where it left the cursor
Parsed(node, pos) == [ok |-> TRUE, node |-> node, pos |-> pos]
Failure(pos) == [ok |-> FALSE, node |-> Null, pos |-> pos]

IdentifierExpression(lexeme) == <<"Identifier", lexeme>>
BinaryExpression(op, left, right) == <<"Binary", op, left, right>>
CallExpression(callee, arguments, typeArgs) ==
  <<"Call", callee, arguments, typeArgs>>

\* a type name inside <...>: an identifier or a primitive type keyword
IsTypeName(token) == token[1] \in {"IDENTIFIER", "TYPE"}

\* parsePrimary's lookahead after the type name that follows '<': is there
\* a '>' followed by '(' after a comma-separated list of type names
RECURSIVE ScanTypeArguments(_, _)
ScanTypeArguments(ts, pos) ==
  IF isAtEnd(ts, pos) THEN FALSE
  ELSE IF check(ts, pos, "GREATER") THEN check(ts, pos + 1, "LEFT_PAREN")
  ELSE IF check(ts, pos, "COMMA")
    THEN IF IsTypeName(peek(ts, pos + 1))
           THEN ScanTypeArguments(ts, pos + 2) ELSE FALSE
  ELSE FALSE

\* pos is at the '<' that follows an identifier
isGenericCall(ts, pos) ==
  /\ IsTypeName(peek(ts, advance(ts, pos)))
  /\ ScanTypeArguments(ts, pos + 2)

\* the do-while of parseGenericFunctionCall that collects the type names
RECURSIVE parseTypeArguments(_, _, _)
parseTypeArguments(ts, pos, typeArgs) ==
  IF ~IsTypeName(peek(ts, pos)) THEN Failure(pos)
  ELSE LET args == Append(typeArgs, peek(ts, pos)[2])
       IN  IF ~check(ts, pos + 1, "COMMA") THEN Parsed(args, pos + 1)
           ELSE IF isAtEnd(ts, pos + 2) THEN Parsed(args, pos + 2)
           ELSE parseTypeArguments(ts, pos + 2, args)

RECURSIVE parseExpression(_, _)
RECURSIVE parseComparisonRest(_, _, _)
RECURSIVE parseArguments(_, _, _)
RECURSIVE parsePostfixOperations(_, _, _)
RECURSIVE parsePrimary(_, _)

\* the argument list after '(' up to and including ')'
parseArguments(ts, pos, arguments) ==
  IF arguments = <<>> /\ check(ts, pos, "RIGHT_PAREN")
    THEN Parsed(arguments, pos + 1)
  ELSE LET arg == parseExpression(ts, pos)
       IN  IF ~arg.ok THEN Failure(arg.pos)
           ELSE IF check(ts, arg.pos, "COMMA")
             THEN parseArguments(ts, arg.pos + 1, Append(arguments, arg.node))
           ELSE IF check(ts, arg.pos, "RIGHT_PAREN")
             THEN Parsed(Append(arguments, arg.node), arg.pos + 1)
           ELSE Failure(arg.pos)

\* calls after a primary expression (member access and indexing need
\* tokens that are not in the alphabet)
parsePostfixOperations(ts, pos, expr) ==
  IF check(ts, pos, "LEFT_PAREN")
    THEN LET args == parseArguments(ts, pos + 1, <<>>)
         IN  IF ~args.ok THEN Failure(args.pos)
             ELSE parsePostfixOperations(ts, args.pos,
                    CallExpression(expr, args.node, <<>>))
    ELSE Parsed(expr, pos)

\* pos is at the '<' that follows the callee
parseGenericFunctionCall(ts, pos, expr) ==
  LET typeArgs == parseTypeArguments(ts, pos + 1, <<>>)
  IN  IF ~typeArgs.ok THEN Failure(typeArgs.pos)
      ELSE IF ~check(ts, typeArgs.pos, "GREATER") THEN Failure(typeArgs.pos)
      ELSE IF ~check(ts, typeArgs.pos + 1, "LEFT_PAREN")
        THEN Failure(typeArgs.pos + 1)
      ELSE LET args == parseArguments(ts, typeArgs.pos + 2, <<>>)
           IN  IF ~args.ok THEN Failure(args.pos)
               ELSE parsePostfixOperations(ts, args.pos,
                      CallExpression(expr, args.node, typeArgs.node))

parsePrimary(ts, pos) ==
  IF check(ts, pos, "IDENTIFIER")
    THEN LET expr == IdentifierExpression(peek(ts, pos)[2])
         IN  IF check(ts, pos + 1, "LESS") /\ isGenericCall(ts, pos + 1)
               THEN parseGenericFunctionCall(ts, pos + 1, expr)
               ELSE parsePostfixOperations(ts, pos + 1, expr)
  ELSE IF check(ts, pos, "LEFT_PAREN")
    THEN LET inner == parseExpression(ts, pos + 1)
         IN  IF ~inner.ok THEN inner
             ELSE IF ~check(ts, inner.pos, "RIGHT_PAREN")
               THEN Failure(inner.pos)
             ELSE parsePostfixOperations(ts, inner.pos + 1, inner.node)
  ELSE Failure(pos)

\* parseAdditive, parseMultiplicative and parseUnary hand a token sequence
\* without arithmetic and unary operators straight to parsePrimary
parseAdditive(ts, pos) == parsePrimary(ts, pos)

\* the while loop of parseComparison, expr being the left operand so far
parseComparisonRest(ts, pos, expr) ==
  IF \E kind \in {"LESS", "LESS_EQUALS", "GREATER", "GREATER_EQUALS",
                  "EQUALS_EQUALS", "EXCLAIM_EQUALS"} : check(ts, pos, kind)
    THEN LET right == parseAdditive(ts, pos + 1)
         IN  IF ~right.ok THEN right
             ELSE parseComparisonRest(ts, right.pos,
                    BinaryExpression(peek(ts, pos)[1], expr, right.node))
    ELSE Parsed(expr, pos)

parseComparison(ts, pos) ==
  LET expr == parseAdditive(ts, pos)
  IN  IF ~expr.ok THEN expr
      ELSE parseComparisonRest(ts, expr.pos, expr.node)

\* parseAssignment finds no assignment operator in the alphabet
parseExpression(ts, pos) == parseComparison(ts, pos)

TokenKinds == {"IDENTIFIER", "LESS", "GREATER", "LEFT_PAREN", "RIGHT_PAREN"}

\* the lexemes the lexer gives the identifiers of one input, in order
\* (the fourth identifier gets the first lexeme again)
Lexemes == {<<"a", "b", "c">>, <<"f", "T", "c">>}

Punctuation(kind) ==
  CASE kind = "LESS" -> "<"
    [] kind = "GREATER" -> ">"
    [] kind = "LEFT_PAREN" -> "("
    [] kind = "RIGHT_PAREN" -> ")"
    [] kind = "EQUALS_EQUALS" -> "=="

\* the token sequence of the given kinds, identifiers named from names
Lex(kinds, names) ==
  [i \in 1..Len(kinds) |->
     IF kinds[i] = "IDENTIFIER"
       THEN <<"IDENTIFIER",
              names[1 + (Cardinality({j \in 1..(i - 1) : kinds[j] = "IDENTIFIER"})
                           % Len(names))]>>
       ELSE <<kinds[i], Punctuation(kinds[i])>>]

ExprInit ==
  /\ \E kinds \in SeqsUpTo(TokenKinds, MaxTokens), names \in Lexemes :
       tokens_ = Lex(kinds, names)
  /\ current_ = 1
  /\ tokenOp = "none"
  /\ startPos = 1
  /\ parsed = <<"none">>
  /\ OptionsIdle
  /\ PassesIdle
  /\ FlowIdle
  /\ LaterIdle
  /\ TypesIdle
  /\ scopes = <<>>
  /\ found = NoLookup
  /\ CheckIdle
  /\ ParseIdle
  /\ LowerIdle

ParseExpression ==
  /\ tokenOp = "none"
  /\ LET result == parseExpression(tokens_, current_)
     IN  /\ parsed' = result.node
         /\ current_' = result.pos
  /\ tokenOp' = "parseExpression"
  /\ UNCHANGED <<tokens_, startPos, optionVars, passVars, flowVars, laterVars, typeVars,
                 scopeVars, checkVars, parseVars, lowerVars>>

ExprNext ==
  \/ ParseExpression

SpecExpr == ExprInit /\ [][ExprNext]_vars

\* the token sequences of `a < b > (c)` and of `f<T>(c)`
ComparisonTokens ==
  <<<<"IDENTIFIER", "a">>, <<"LESS", "<">>, <<"IDENTIFIER", "b">>,
    <<"GREATER", ">">>, <<"LEFT_PAREN", "(">>, <<"IDENTIFIER", "c">>,
    <<"RIGHT_PAREN", ")">>>>
GenericCallTokens ==
  <<<<"IDENTIFIER", "f">>, <<"LESS", "<">>, <<"IDENTIFIER", "T">>,
    <<"GREATER", ">">>, <<"LEFT_PAREN", "(">>, <<"IDENTIFIER", "c">>,
    <<"RIGHT_PAREN", ")">>>>

\* C13: `a < b > (c)` parses to a tree of two binary comparisons over a, b
\* and (c), and `f<T>(c)` parses to a call with callee f, the one type
\* argument T and the one value argument c.
C13_GenericCallDisambiguation ==
  tokenOp = "parseExpression" =>
    /\ tokens_ = ComparisonTokens =>
         /\ parsed[1] = "Binary"
         /\ parsed = BinaryExpression("GREATER",
                       BinaryExpression("LESS", IdentifierExpression("a"),
                                        IdentifierExpression("b")),
                       IdentifierExpression("c"))
    /\ tokens_ = GenericCallTokens =>
         /\ parsed[1] = "Call"
         /\ parsed = CallExpression(IdentifierExpression("f"),
                                    <<IdentifierExpression("c")>>, <<"T">>)


(***************************************************************************)
(* Error recovery: BaseParseVisitor::synchronize, called by visitParse at  *)
(* top level, and StatementParseVisitor::synchronize, called by            *)
(* parseStatement and parseBlock inside blocks.                            *)
(***************************************************************************)
\* most tokens in a token sequence handed to synchronize
MaxSyncTokens == 5

\* the token kinds BaseParseVisitor::synchronize stops in front of
BaseStopKinds ==
  {"CLASS", "FUNCTION", "LET", "CONST", "IF", "WHILE", "RETURN"}

\* the lexemes StatementParseVisitor::synchronize stops in front of
StatementStopLexemes ==
  {"class", "function", "let", "const", "if", "while", "return", "}", "{"}

\* the loop of BaseParseVisitor::synchronize
RECURSIVE BaseSynchronizeLoop(_, _)
BaseSynchronizeLoop(ts, pos) ==
  IF isAtEnd(ts, pos) THEN pos
  ELSE IF previous(ts, pos)[1] = "SEMICOLON" THEN pos
  ELSE IF peek(ts, pos)[1] \in BaseStopKinds THEN pos
  ELSE BaseSynchronizeLoop(ts, advance(ts, pos))

BaseSynchronize(ts, pos) == BaseSynchronizeLoop(ts, advance(ts, pos))

\* the loop of StatementParseVisitor::synchronize
RECURSIVE StatementSynchronizeLoop(_, _)
StatementSynchronizeLoop(ts, pos) ==
  IF isAtEnd(ts, pos) THEN pos
  ELSE IF previous(ts, pos)[2] = ";" THEN pos
  ELSE IF peek(ts, pos)[2] \in StatementStopLexemes THEN pos
  ELSE StatementSynchronizeLoop(ts, advance(ts, pos))

StatementSynchronize(ts, pos) ==
  StatementSynchronizeLoop(ts, advance(ts, pos))

SyncTokens ==
  {<<"SEMICOLON", ";">>, <<"LET", "let">>, <<"LEFT_BRACE", "{">>,
   <<"RIGHT_BRACE", "}">>, <<"IDENTIFIER", "a">>}

\* a token sequence and the cursor at the token on which a parse failed
SyncInit ==
  /\ tokens_ \in SeqsUpTo(SyncTokens, MaxSyncTokens)
  /\ current_ \in 1..(Len(tokens_) + 1)
  /\ tokenOp = "none"
  /\ startPos = current_
  /\ parsed = <<"none">>
  /\ OptionsIdle
  /\ PassesIdle
  /\ FlowIdle
  /\ LaterIdle
  /\ TypesIdle
  /\ scopes = <<>>
  /\ found = NoLookup
  /\ CheckIdle
  /\ ParseIdle
  /\ LowerIdle

\* visitParse: a top-level declaration or statement failed to parse
SynchronizeTopLevel ==
  /\ tokenOp = "none"
  /\ current_' = BaseSynchronize(tokens_, current_)
  /\ tokenOp' = "synchronize top level"
  /\ UNCHANGED <<tokens_, startPos, parsed, optionVars, passVars, flowVars, laterVars,
                 typeVars, scopeVars, checkVars, parseVars, lowerVars>>

\* parseBlock: a statement of the block failed to parse
SynchronizeInBlock ==
  /\ tokenOp = "none"
  /\ current_' = StatementSynchronize(tokens_, current_)
  /\ tokenOp' = "synchronize in block"
  /\ UNCHANGED <<tokens_, startPos, parsed, optionVars, passVars, flowVars, laterVars,
                 typeVars, scopeVars, checkVars, parseVars, lowerVars>>

SyncNext ==
  \/ SynchronizeTopLevel
  \/ SynchronizeInBlock

SpecSync == SyncInit /\ [][SyncNext]_vars

\* a position where recovery may stop: the end of the tokens, a position
\* just after `;`, or one in front of a statement keyword or a brace
IsStop(ts, pos) ==
  \/ pos > Len(ts)
  \/ (pos > 1 /\ ts[pos - 1][2] = ";")
  \/ ts[pos][2] \in {"class", "function", "let", "const", "if", "while",
                     "return", "{", "}"}

\* the first such position after the token the parse failed on
FirstStop(ts, start) ==
  LET from == IF start > Len(ts) THEN start ELSE start + 1
  IN  CHOOSE p \in from..(Len(ts) + 1) :
        IsStop(ts, p) /\ \A q \in from..(p - 1) : ~IsStop(ts, q)

MaxNameLen == 3

NameChars == {"a", ".", "/"}
OutputFormats == {"LLVM_IR", "LLVM_BC", "ASSEMBLY", "OBJECT", "EXECUTABLE"}

\* std::string::find_last_of: the index of the last c in s, 0 for npos
find_last_of(s, c) ==
  LET at == {i \in 1..Len(s) : s[i] = c}
  IN  IF at = {} THEN 0 ELSE CHOOSE i \in at : \A j \in at : j <= i

\* the extension updateFileExtension appends (a build that is not _WIN32)
Extension(format) ==
  CASE format = "LLVM_IR" -> <<".", "l", "l">>
    [] format = "LLVM_BC" -> <<".", "b", "c">>
    [] format = "ASSEMBLY" -> <<".", "s">>
    [] format = "OBJECT" -> <<".", "o">>
    [] format = "EXECUTABLE" -> <<>>

updateFileExtension(name, format) ==
  LET dotPos == find_last_of(name, ".")
      stripped == IF dotPos # 0 THEN SubSeq(name, 1, dotPos - 1) ELSE name
  IN  stripped \o Extension(format)

DefaultFilename == <<"o", "u", "t", "p", "u", "t">>

\* CodeGenOptions::CodeGenOptions
OptionsInit ==
  /\ outputFormat_ = "LLVM_IR"
  /\ filename = DefaultFilename
  /\ outputFilename_ = updateFileExtension(DefaultFilename, "LLVM_IR")
  /\ TokensIdle
  /\ PassesIdle
  /\ FlowIdle
  /\ LaterIdle
  /\ TypesIdle
  /\ scopes = <<>>
  /\ found = NoLookup
  /\ CheckIdle
  /\ ParseIdle
  /\ LowerIdle

SetOutputFormat ==
  /\ \E format \in OutputFormats :
       /\ outputFormat_' = format
       /\ outputFilename_' = updateFileExtension(outputFilename_, format)
  /\ UNCHANGED <<filename, tokenVars, passVars, flowVars, laterVars, typeVars, scopeVars,
                 checkVars, parseVars, lowerVars>>

SetOutputFilename ==
  /\ \E name \in SeqsUpTo(NameChars, MaxNameLen) \ {<<>>} :
       /\ filename' = name
       /\ outputFilename_' = updateFileExtension(name, outputFormat_)
  /\ UNCHANGED <<outputFormat_, tokenVars, passVars, flowVars, laterVars, typeVars,
                 scopeVars, checkVars, parseVars, lowerVars>>

OptionsNext ==
  \/ SetOutputFormat
  \/ SetOutputFilename

SpecOptions == OptionsInit /\ [][OptionsNext]_vars

\* the directory part of a name (up to its last '/') and what follows it
DirectoryPart(name) == SubSeq(name, 1, find_last_of(name, "/"))
BaseName(name) == SubSeq(name, find_last_of(name, "/") + 1, Len(name))

\* a base name without its extension
Stem(base) ==
  IF find_last_of(base, ".") = 0 THEN base
  ELSE SubSeq(base, 1, find_last_of(base, ".") - 1)

\* C20: after any sequence of setOutputFilename and setOutputFormat calls
\* the output file name is the most recently set name with only its
\* extension replaced by the one of the current format; the directory part
\* and the base name are unchanged.
C20_OnlyExtensionReplaced ==
  outputFilename_ =
    DirectoryPart(filename) \o Stem(BaseName(filename)) \o Extension(outputFormat_)


(***************************************************************************)
(* TypeCheckVisitor::checkAST over one AST (type_check_visitor.cpp 30-101):*)
(* a first loop over the top-level nodes that visits the type declarations *)
(* and declares each one's name, then a second loop that visits variable   *)
(* declarations, functions, namespaces and statements.  The AST holds      *)
(* class declarations with one field, typedefs and variable declarations   *)
(* with a declared type; `emitted` keeps the error() calls in order, each  *)
(* with the index of the top-level node it was made for.                   *)
(***************************************************************************)
\* most top-level nodes in one AST handed to checkAST
MaxDecls == 3

DeclTypeNames == {"A", "B"}
\* a type as written: a primitive type or a name
TypeRefs == DeclTypeNames \cup {"int"}

DeclNodes ==
  {<<"ClassDecl", n, f>> : n \in DeclTypeNames, f \in TypeRefs} \cup
  {<<"TypedefDecl", n, a>> : n \in DeclTypeNames, a \in TypeRefs} \cup
  {<<"VarDecl", "x", t>> : t \in TypeRefs}

\* error(location, message), the location being that of top-level node i
errorAt(log, i, message) == Append(log, [node |-> i, message |-> message])

\* visitType of a type reference: visitPrimitiveType or visitNamedType
visitType(ref, ss, cur, log, i) ==
  IF ref = "int" THEN [type |-> Int, emitted |-> log]
  ELSE LET type == lookupType(ss, cur, ref)
       IN  IF getKind(type) = "nullptr"
             THEN [type |-> Error,
                   emitted |-> errorAt(log, i, "Undefined type: " \o ref)]
             ELSE [type |-> type, emitted |-> log]

\* visitClassDecl of a class with the one field f: enterScope,
\* visitFieldDecl, exitScope; then checkAST declares the class name
visitClassDecl(node, ss, cur, log, i) ==
  LET en == enterScope(ss, cur)
      fieldType == visitType(node[3], en.scopes, en.currentScope_, log, i)
      declared == declareVariable(en.scopes, en.currentScope_, "f",
                                  fieldType.type)
      ex == exitScope(declared, en.currentScope_)
  IN  [scopes |-> declareType(ex.scopes, ex.currentScope_, node[2],
                              Named(node[2])),
       currentScope_ |-> ex.currentScope_,
       emitted |-> fieldType.emitted]

\* visitTypedefDecl; then checkAST declares the name once more
visitTypedefDecl(node, ss, cur, log, i) ==
  LET aliasedType == visitType(node[3], ss, cur, log, i)
  IN  [scopes |-> declareType(ss, cur, node[2], aliasedType.type),
       currentScope_ |-> cur,
       emitted |-> aliasedType.emitted]

PassesInit ==
  /\ checkNodes \in SeqsUpTo(DeclNodes, MaxDecls)
  /\ checkIndex = 1
  /\ emitted = <<>>
  /\ scopes = <<GlobalScope>>
  /\ found = NoLookup
  /\ currentScope_ = 1
  /\ inLoop_ = FALSE
  /\ currentFunctionReturnType_ = Null
  /\ stack = <<>>
  /\ diagnostics = {}
  /\ success = TRUE
  /\ pc = "pass1"
  /\ visited = 0
  /\ TokensIdle
  /\ OptionsIdle
  /\ FlowIdle
  /\ LaterIdle
  /\ TypesIdle
  /\ ParseIdle
  /\ LowerIdle

\* one iteration of the first loop
FirstPassNode ==
  /\ pc = "pass1"
  /\ checkIndex <= Len(checkNodes)
  /\ LET node == checkNodes[checkIndex]
     IN  IF node[1] \in {"ClassDecl", "TypedefDecl"}
           THEN LET r == IF node[1] = "ClassDecl"
                           THEN visitClassDecl(node, scopes, currentScope_,
                                               emitted, checkIndex)
                           ELSE visitTypedefDecl(node, scopes, currentScope_,
                                                 emitted, checkIndex)
                IN  /\ scopes' = r.scopes
                    /\ currentScope_' = r.currentScope_
                    /\ emitted' = r.emitted
           ELSE UNCHANGED <<scopes, currentScope_, emitted>>
  /\ checkIndex' = checkIndex + 1
  /\ UNCHANGED <<checkNodes, found, inLoop_, currentFunctionReturnType_, stack,
                 diagnostics, success, pc, visited, tokenVars, optionVars,
                 flowVars, laterVars, typeVars, parseVars, lowerVars>>

\* the first loop is over, the second one starts
StartSecondPass ==
  /\ pc = "pass1"
  /\ checkIndex > Len(checkNodes)
  /\ pc' = "pass2"
  /\ checkIndex' = 1
  /\ UNCHANGED <<checkNodes, emitted, scopeVars, currentScope_, inLoop_,
                 currentFunctionReturnType_, stack, diagnostics, success,
                 visited, tokenVars, optionVars, flowVars, laterVars, typeVars, parseVars,
                 lowerVars>>

\* one iteration of the second loop
SecondPassNode ==
  /\ pc = "pass2"
  /\ checkIndex <= Len(checkNodes)
  /\ LET node == checkNodes[checkIndex]
     IN  IF node[1] = "VarDecl"
           THEN LET declaredType == visitType(node[3], scopes, currentScope_,
                                              emitted, checkIndex)
                    r == visitVarDecl(node[2], declaredType.type, NoExpr, scopes,
                                      currentScope_, diagnostics)
                IN  /\ scopes' = r.scopes
                    /\ emitted' = declaredType.emitted
                    /\ success' = IF getKind(r.type) = "Error" THEN FALSE
                                  ELSE success
           ELSE UNCHANGED <<scopes, emitted, success>>
  /\ checkIndex' = checkIndex + 1
  /\ UNCHANGED <<checkNodes, found, currentScope_, inLoop_,
                 currentFunctionReturnType_, stack, diagnostics, pc, visited,
                 tokenVars, optionVars, flowVars, laterVars, typeVars, parseVars,
                 lowerVars>>

\* checkAST returns
CheckReturn ==
  /\ pc = "pass2"
  /\ checkIndex > Len(checkNodes)
  /\ pc' = "done"
  /\ UNCHANGED <<passVars, scopeVars, currentScope_, inLoop_,
                 currentFunctionReturnType_, stack, diagnostics, success,
                 visited, tokenVars, optionVars, flowVars, laterVars, typeVars, parseVars,
                 lowerVars>>

PassesNext ==
  \/ FirstPassNode
  \/ StartSecondPass
  \/ SecondPassNode
  \/ CheckReturn

SpecPasses == PassesInit /\ [][PassesNext]_vars

\* C15: within the check phase diagnostics are emitted in source order: of
\* two diagnostics, the one for the construct that comes first in the
\* source is emitted first.
C15_DiagnosticsInSourceOrder ==
  \A i, j \in 1..Len(emitted) :
    i < j => emitted[i].node <= emitted[j].node


\* the names the top-level type declarations of the AST declare, other
\* than the one node i declares
DeclaredByOthers(nodes, i) ==
  {nodes[k][2] : k \in {k \in 1..Len(nodes) :
                          k # i /\ nodes[k][1] \in {"ClassDecl", "TypedefDecl"}}}

\* C18: a type declared at top level can be referenced by name from any
\* other top-level declaration, whatever their order in the source,
\* without an undefined-type error.
C18_TopLevelTypesOrderFree ==
  \A k \in 1..Len(emitted) :
    emitted[k].message \notin
      {"Undefined type: " \o n : n \in DeclaredByOthers(checkNodes, emitted[k].node)}


\* the frames of the function declarations a visit is inside of, outermost
\* first
EnclosingFunctions == SelectSeq(stack, LAMBDA f : f.kind = "FuncDecl")

\* the type of the value a return statement gives back (Void without one)
ReturnedType(value) == IF value[1] = "none" THEN Void ELSE value[2]

ReturnError ==
  Diagnostic("error", "Return value type doesn't match function return type")

\* C17: every return statement inside a function body is checked against
\* the declared return type of the innermost enclosing function, also after
\* a nested function declaration: a return whose value is not assignable to
\* that type is reported.
C17_ReturnCheckedAgainstEnclosingFunction ==
  [][\A value \in Literals \cup {NoExpr} :
       (/\ VisitReturnStmt
        /\ visitReturnStmt(value)
        /\ EnclosingFunctions # <<>>
        /\ ~isAssignableTo(ReturnedType(value),
              EnclosingFunctions[Len(EnclosingFunctions)].returnType))
       => ReturnError \in diagnostics']_vars


(***************************************************************************)
(* The walk of TypeCheckVisitor over loops and jump statements             *)
(* (type_check_visitor.cpp 581-713): blocks, the four loop statements with *)
(* a block as body, break and continue.  As in the walk above a compound   *)
(* statement has an action up to its body and one after it.                *)
(***************************************************************************)
LoopKinds == {"While", "DoWhile", "For", "ForOf"}

visitBreakStmt(inLoop, d) ==
  IF ~inLoop
    THEN [diagnostics |-> error(d, "Break statement must be inside a loop"),
          reported |-> TRUE]
    ELSE [diagnostics |-> d, reported |-> FALSE]

visitContinueStmt(inLoop, d) ==
  IF ~inLoop
    THEN [diagnostics |-> error(d, "Continue statement must be inside a loop"),
          reported |-> TRUE]
    ELSE [diagnostics |-> d, reported |-> FALSE]

\* the flag after a loop body that leaves it set
restoreInLoop_leftSet(wasInLoop) == TRUE

\* inLoop_ = wasInLoop, after the body of a loop
restoreInLoop(wasInLoop) == wasInLoop

\* the condition of a while, do-while or for statement
visitCondition(cond, ss, cur, d, message) ==
  LET c == visitExpr(cond, ss, cur, d)
  IN  IF ~isImplicitlyConvertibleTo(c.type, Bool)
        THEN error(c.diagnostics, message) ELSE c.diagnostics

\* what no step of this walk changes
flowFixed == <<found, currentFunctionReturnType_, pc, tokenVars, optionVars,
               passVars, laterVars, typeVars, parseVars, lowerVars>>

\* wasInLoop = inLoop_; inLoop_ = true; the body block's enterScope
EnterBody(kind, ss, cur) ==
  /\ LET body == enterScope(ss, cur)
     IN  /\ scopes' = body.scopes
         /\ currentScope_' = body.currentScope_
  /\ inLoop_' = TRUE
  /\ stack' = Append(stack, Frame(kind, inLoop_, Null))
  /\ lastStmt' = kind
  /\ lastReported' = FALSE
  /\ visited' = visited + 1
  /\ UNCHANGED <<success, loopsExited, flowFixed>>

\* the body block's exitScope; inLoop_ = wasInLoop
LeaveBody(kind) ==
  /\ pc = "pass2"
  /\ stack # <<>>
  /\ Top.kind = kind
  /\ inLoop_' = restoreInLoop(Top.wasInLoop)
  /\ stack' = Pop
  /\ lastStmt' = "End"
  /\ lastReported' = FALSE
  /\ loopsExited' = loopsExited + 1
  /\ UNCHANGED <<success, visited, flowFixed>>

BreakStmt ==
  /\ CanVisit
  /\ LET r == visitBreakStmt(inLoop_, diagnostics)
     IN  /\ diagnostics' = r.diagnostics
         /\ lastReported' = r.reported
  /\ lastStmt' = "Break"
  /\ success' = Returned(Void)
  /\ visited' = visited + 1
  /\ UNCHANGED <<scopes, currentScope_, inLoop_, stack, loopsExited, flowFixed>>

ContinueStmt ==
  /\ CanVisit
  /\ LET r == visitContinueStmt(inLoop_, diagnostics)
     IN  /\ diagnostics' = r.diagnostics
         /\ lastReported' = r.reported
  /\ lastStmt' = "Continue"
  /\ success' = Returned(Void)
  /\ visited' = visited + 1
  /\ UNCHANGED <<scopes, currentScope_, inLoop_, stack, loopsExited, flowFixed>>

\* visitBlock up to its statements
EnterBlock ==
  /\ CanNest
  /\ LET en == enterScope(scopes, currentScope_)
     IN  /\ scopes' = en.scopes
         /\ currentScope_' = en.currentScope_
  /\ stack' = Append(stack, Frame("Block", inLoop_, Null))
  /\ lastStmt' = "Block"
  /\ lastReported' = FALSE
  /\ visited' = visited + 1
  /\ UNCHANGED <<inLoop_, diagnostics, success, loopsExited, flowFixed>>

LeaveBlock ==
  /\ pc = "pass2"
  /\ stack # <<>>
  /\ Top.kind = "Block"
  /\ LET ex == exitScope(scopes, currentScope_)
     IN  /\ scopes' = ex.scopes
         /\ currentScope_' = ex.currentScope_
  /\ stack' = Pop
  /\ lastStmt' = "End"
  /\ lastReported' = FALSE
  /\ UNCHANGED <<inLoop_, diagnostics, success, visited, loopsExited, flowFixed>>

\* visitWhileStmt up to the body
EnterWhile ==
  /\ CanNest
  /\ \E cond \in Exprs :
       diagnostics' = visitCondition(cond, scopes, currentScope_, diagnostics,
                        "While condition must be convertible to boolean")
  /\ EnterBody("While", scopes, currentScope_)

LeaveWhile ==
  /\ LeaveBody("While")
  /\ LET ex == exitScope(scopes, currentScope_)
     IN  /\ scopes' = ex.scopes
         /\ currentScope_' = ex.currentScope_
  /\ UNCHANGED diagnostics

\* visitDoWhileStmt up to the body
EnterDoWhile ==
  /\ CanNest
  /\ UNCHANGED diagnostics
  /\ EnterBody("DoWhile", scopes, currentScope_)

\* the rest of visitDoWhileStmt: the flag is restored, then the condition
\* is visited
LeaveDoWhile ==
  /\ LeaveBody("DoWhile")
  /\ LET ex == exitScope(scopes, currentScope_)
     IN  /\ scopes' = ex.scopes
         /\ currentScope_' = ex.currentScope_
         /\ \E cond \in Exprs :
              diagnostics' =
                visitCondition(cond, ex.scopes, ex.currentScope_, diagnostics,
                  "Do-while condition must be convertible to boolean")

\* visitForStmt (no initializer, no increment) up to the body
EnterFor ==
  /\ CanNest
  /\ LET en == enterScope(scopes, currentScope_)
     IN  /\ \E cond \in Exprs :
              diagnostics' =
                visitCondition(cond, en.scopes, en.currentScope_, diagnostics,
                  "For loop condition must be convertible to boolean")
         /\ EnterBody("For", en.scopes, en.currentScope_)

LeaveFor ==
  /\ LeaveBody("For")
  /\ LET body == exitScope(scopes, currentScope_)
         ex == exitScope(body.scopes, body.currentScope_)
     IN  /\ scopes' = ex.scopes
         /\ currentScope_' = ex.currentScope_
  /\ UNCHANGED diagnostics

\* visitForOfStmt up to the body
EnterForOf ==
  /\ CanNest
  /\ \E name \in VarNames, iterable \in Exprs :
       LET en == enterScope(scopes, currentScope_)
           it == visitExpr(iterable, en.scopes, en.currentScope_, diagnostics)
           isArray == getKind(it.type) = "Array"
           elementType == IF isArray THEN it.type[2] ELSE Error
           declared == declareVariable(en.scopes, en.currentScope_, name,
                                       elementType)
       IN  /\ diagnostics' = IF ~isArray
                               THEN warning(it.diagnostics,
                                            "For-of requires an iterable type")
                               ELSE it.diagnostics
           /\ EnterBody("ForOf", declared, en.currentScope_)

LeaveForOf ==
  /\ LeaveBody("ForOf")
  /\ LET body == exitScope(scopes, currentScope_)
         ex == exitScope(body.scopes, body.currentScope_)
     IN  /\ scopes' = ex.scopes
         /\ currentScope_' = ex.currentScope_
  /\ UNCHANGED diagnostics

FlowNext ==
  \/ SecondPass
  \/ BreakStmt
  \/ ContinueStmt
  \/ EnterBlock
  \/ LeaveBlock
  \/ EnterWhile
  \/ LeaveWhile
  \/ EnterDoWhile
  \/ LeaveDoWhile
  \/ EnterFor
  \/ LeaveFor
  \/ EnterForOf
  \/ LeaveForOf
  \/ ReturnSuccess

SpecFlow == CheckInit /\ [][FlowNext]_vars

\* the walk is inside the body of a loop
InLoopBody == \E i \in 1..Len(stack) : stack[i].kind \in LoopKinds

\* C16: a break or continue statement is reported if and only if it is not
\* inside the body of a while, do-while, for or for-of loop; the in-loop
\* flag is set while a loop body is visited and restored afterwards, so a
\* break that follows a loop without being inside another one is reported.
C16_JumpOutsideLoopIsError ==
  /\ lastStmt \in {"Break", "Continue"} => (lastReported <=> ~InLoopBody)
  /\ inLoop_ = InLoopBody

\* a break that follows a loop, outside any loop, has been reported
C16_Witness ==
  /\ lastStmt = "Break"
  /\ lastReported
  /\ loopsExited > 0
  /\ ~InLoopBody


(***************************************************************************)
(* Further claims about the type lattice (checked under SpecTypes).        *)
(***************************************************************************)

\* C21: each of the four binary predicates (equals, isAssignableTo,
\* isImplicitlyConvertibleTo, isExplicitlyConvertibleTo) answers true
\* whenever one of its two operands is the Error type.
C21_ErrorAbsorbsEveryPredicate ==
  (tOp # "none" /\ (getKind(ta) = "Error" \/ getKind(tb) = "Error")) => tRes


\* the components a, b, c of a union written (a | b) | c
IsLeftNested(t) == getKind(t) = "Union" /\ getKind(t[2]) = "Union"

\* C22: unions built from the same components are equal whatever the
\* order and nesting of the combination: (a | b) | c equals (a | c) | b
\* and equals a | (b | c).
C22_UnionOrderAndNestingFree ==
  (IsLeftNested(ta)
     /\ tb \in NestedUnions(ta[2][2], ta[2][3], ta[3])) =>
    /\ equals(ta, tb)
    /\ tOp = "equals" => tRes


\* the rule of C23 for two smart-pointer types S and T
SmartRule(S, T) ==
  \/ (S[3] = T[3] /\ isAssignableTo(S[2], T[2]))
  \/ (S[3] = "Shared" /\ T[3] = "Weak" /\ equals(S[2], T[2]))

\* C23: Smart(k1, p1) is assignable to Smart(k2, p2) exactly when k1 = k2
\* and p1 is assignable to p2, or k1 = Shared, k2 = Weak and p1 and p2 are
\* the same pointee type.
C23_SmartPointerAssignability ==
  (getKind(ta) = "Smart" /\ getKind(tb) = "Smart") =>
    /\ isAssignableTo(ta, tb) <=> SmartRule(ta, tb)
    /\ tOp = "isAssignableTo" => (tRes <=> SmartRule(ta, tb))


(***************************************************************************)
(* TypeCheckVisitor::checkBinaryOp (type_check_visitor.cpp:1393-1456) on   *)
(* the types of two operands.  The operator categories are those of the    *)
(* token predicates the method calls.                                      *)
(***************************************************************************)
ArithmeticOperators == {"+", "-"}
ComparisonOperators == {"==", "<"}
LogicalOperators == {"&&"}
BitwiseOperators == {"&"}
BinaryOperators ==
  ArithmeticOperators \cup ComparisonOperators \cup LogicalOperators
    \cup BitwiseOperators \cup {"."}

\* the test of the comparison branch (lines 1427-1428)
ComparableOperands(leftType, rightType) ==
  isAssignableTo(leftType, rightType) \/ isAssignableTo(rightType, leftType)

\* the returned type and the diagnostics after the call
checkBinaryOp(op, leftType, rightType, d) ==
  IF op \in ArithmeticOperators THEN
    IF getKind(leftType) \in {"Int", "Float"} /\ getKind(rightType) \in {"Int", "Float"}
      THEN [type |-> IF getKind(leftType) = "Float" \/ getKind(rightType) = "Float"
                       THEN Float ELSE Int,
            diagnostics |-> d]
    ELSE IF op = "+" /\ (getKind(leftType) = "String" \/ getKind(rightType) = "String")
      THEN [type |-> String, diagnostics |-> d]
    ELSE [type |-> Error,
          diagnostics |-> error(d, "Invalid operands for arithmetic operator")]
  ELSE IF op \in ComparisonOperators THEN
    IF ComparableOperands(leftType, rightType)
      THEN [type |-> Bool, diagnostics |-> d]
    ELSE [type |-> Error,
          diagnostics |-> error(d, "Cannot compare incompatible types")]
  ELSE IF op \in LogicalOperators THEN
    IF isImplicitlyConvertibleTo(leftType, Bool) /\ isImplicitlyConvertibleTo(rightType, Bool)
      THEN [type |-> Bool, diagnostics |-> d]
    ELSE [type |-> Error,
          diagnostics |-> error(d, "Logical operators require boolean operands")]
  ELSE IF op \in BitwiseOperators THEN
    IF getKind(leftType) = "Int" /\ getKind(rightType) = "Int"
      THEN [type |-> Int, diagnostics |-> d]
    ELSE [type |-> Error,
          diagnostics |-> error(d, "Bitwise operators require integer operands")]
  ELSE [type |-> Error,
        diagnostics |-> error(d, "Unhandled binary operator in type checking")]

\* the operand types of one binary expression; nothing checked yet
BinaryInit == TypesInit

\* visitBinaryExpr hands the operator and the operand types to checkBinaryOp
CheckBinaryOp ==
  /\ binaryOp = "none"
  /\ \E op \in BinaryOperators :
       LET r == checkBinaryOp(op, ta, tb, diagnostics)
       IN  /\ binaryOp' = op
           /\ binaryType' = r.type
           /\ diagnostics' = r.diagnostics
  /\ UNCHANGED <<typeVars, scopeVars, currentScope_, inLoop_,
                 currentFunctionReturnType_, stack, success, pc, visited,
                 parseVars, lowerVars, tokenVars, optionVars, passVars,
                 flowVars, lookaheadVars, loopVars, localVars>>

BinaryNext == CheckBinaryOp

SpecBinary == BinaryInit /\ [][BinaryNext]_vars

\* C24: a comparison is accepted, with result type Bool, only when each
\* operand's type is assignable to the other's; otherwise an error is
\* reported.
C24_ComparisonNeedsMutualAssignability ==
  binaryOp \in ComparisonOperators =>
    IF isAssignableTo(ta, tb) /\ isAssignableTo(tb, ta)
      THEN binaryType = Bool /\ diagnostics = {}
    ELSE binaryType = Error /\ diagnostics # {}


(***************************************************************************)
(* The expression parser on sequences of identifiers, relational and       *)
(* equality operators.                                                     *)
(***************************************************************************)
PrecedenceKinds == {"IDENTIFIER", "LESS", "GREATER", "EQUALS_EQUALS"}

PrecedenceInit ==
  /\ tokens_ \in {Lex(kinds, <<"a", "b", "c">>) :
                    kinds \in SeqsUpTo(PrecedenceKinds, MaxTokens)}
  /\ current_ = 1
  /\ tokenOp = "none"
  /\ startPos = 1
  /\ parsed = <<"none">>
  /\ OptionsIdle
  /\ PassesIdle
  /\ FlowIdle
  /\ LaterIdle
  /\ TypesIdle
  /\ scopes = <<>>
  /\ found = NoLookup
  /\ CheckIdle
  /\ ParseIdle
  /\ LowerIdle

SpecPrecedence == PrecedenceInit /\ [][ExprNext]_vars

IsEquality(kind) == kind \in {"EQUALS_EQUALS", "EXCLAIM_EQUALS"}
IsRelational(kind) ==
  kind \in {"LESS", "LESS_EQUALS", "GREATER", "GREATER_EQUALS"}

\* the tokens are  x op1 y op2 z  with the two operators given
ThreeOperands(op1, op2) ==
  /\ Len(tokens_) = 5
  /\ \A i \in {1, 3, 5} : tokens_[i][1] = "IDENTIFIER"
  /\ tokens_[2][1] = op1
  /\ tokens_[4][1] = op2

Operand(i) == IdentifierExpression(tokens_[i][2])

\* C25: relational operators bind tighter than equality operators:
\* a == b < c parses as a == (b < c), and a < b == c as (a < b) == c.
C25_RelationalBindsTighter ==
  tokenOp = "parseExpression" =>
    \A op1, op2 \in PrecedenceKinds \ {"IDENTIFIER"} :
      /\ (ThreeOperands(op1, op2) /\ IsEquality(op1) /\ IsRelational(op2)) =>
           parsed = BinaryExpression(op1, Operand(1),
                      BinaryExpression(op2, Operand(3), Operand(5)))
      /\ (ThreeOperands(op1, op2) /\ IsRelational(op1) /\ IsEquality(op2)) =>
           parsed = BinaryExpression(op2,
                      BinaryExpression(op1, Operand(1), Operand(3)), Operand(5))


\* the instruction that returns the lowered value of a return statement's
\* expression
ReturnOfValue == "ret value"

\* C26: lowering a `return e;` statement inside a function emits a return
\* instruction whose operand is the lowered value of e, so the emitted body
\* of a function whose body is `{ return e; }` holds that instruction.
C26_ReturnStatementLowered ==
  [][(/\ lowerPc = "visit"
      /\ lowerPos <= Len(lowerAst)
      /\ lowerAst[lowerPos][1] = "FunctionDecl"
      /\ lowerAst[lowerPos][5] = <<"Block", <<"ReturnStmt">>>>
      /\ Len(module') = Len(module) + 1)
     => LET body == module'[Len(module')].body
        IN  \E i \in 1..Len(body) : body[i] = ReturnOfValue]_vars


(***************************************************************************)
(* The generic-call lookahead of parsePrimary (primary_visitor.h:43-105),  *)
(* one cursor movement at a time.  tokenOp is the place in the method.     *)
(***************************************************************************)
savePosition(pos) == pos
restorePosition(position) == position

LookaheadKinds == TokenKinds \cup {"COMMA"}

\* most tokens of an input the lookahead is run on
MaxLookaheadTokens == 6

LookaheadInit ==
  /\ \E kinds \in SeqsUpTo(LookaheadKinds, MaxLookaheadTokens) :
       tokens_ = [i \in 1..Len(kinds) |->
                    IF kinds[i] = "IDENTIFIER" THEN <<"IDENTIFIER", "a">>
                    ELSE IF kinds[i] = "COMMA" THEN <<"COMMA", ",">>
                    ELSE <<kinds[i], Punctuation(kinds[i])>>]
  /\ current_ = 1
  /\ tokenOp = "parsePrimary"
  /\ startPos = 1
  /\ parsed = <<"none">>
  /\ savedPos = 0
  /\ isGenericCall_ = FALSE
  /\ BinaryIdle
  /\ LoopsIdle
  /\ LocalsIdle
  /\ OptionsIdle
  /\ PassesIdle
  /\ FlowIdle
  /\ TypesIdle
  /\ scopes = <<>>
  /\ found = NoLookup
  /\ CheckIdle
  /\ ParseIdle
  /\ LowerIdle

lookaheadFixed == <<tokens_, startPos, parsed, binaryVars, loopVars, localVars,
                    optionVars, passVars, flowVars, typeVars, scopeVars, checkVars,
                    parseVars, lowerVars>>

\* match(IDENTIFIER) and the check for '<' behind the identifier
MatchIdentifier ==
  /\ tokenOp = "parsePrimary"
  /\ check(tokens_, current_, "IDENTIFIER")
  /\ current_' = advance(tokens_, current_)
  /\ tokenOp' = IF check(tokens_, current_', "LESS") THEN "save" ELSE "postfix"
  /\ UNCHANGED <<savedPos, isGenericCall_, lookaheadFixed>>

\* savedPos = tokens_.savePosition(); tokens_.advance(); and the test for a
\* type name behind the '<'
SavePosition ==
  /\ tokenOp = "save"
  /\ savedPos' = savePosition(current_)
  /\ isGenericCall_' = FALSE
  /\ LET afterLess == advance(tokens_, current_)
     IN  IF IsTypeName(peek(tokens_, afterLess))
           THEN /\ current_' = advance(tokens_, afterLess)
                /\ tokenOp' = "scan"
           ELSE /\ current_' = afterLess
                /\ tokenOp' = "restore"
  /\ UNCHANGED lookaheadFixed

\* one iteration of the while loop that looks for '>'
ScanTypeArgument ==
  /\ tokenOp = "scan"
  /\ IF isAtEnd(tokens_, current_)
       THEN /\ tokenOp' = "restore"
            /\ UNCHANGED <<current_, isGenericCall_>>
     ELSE IF check(tokens_, current_, "GREATER")
       THEN /\ current_' = advance(tokens_, current_)
            /\ isGenericCall_' = check(tokens_, current_', "LEFT_PAREN")
            /\ tokenOp' = "restore"
     ELSE IF check(tokens_, current_, "COMMA")
       THEN LET afterComma == advance(tokens_, current_)
            IN  IF ~IsTypeName(peek(tokens_, afterComma))
                  THEN /\ current_' = afterComma
                       /\ tokenOp' = "restore"
                       /\ UNCHANGED isGenericCall_
                  ELSE /\ current_' = advance(tokens_, afterComma)
                       /\ tokenOp' = "scan"
                       /\ UNCHANGED isGenericCall_
     ELSE /\ tokenOp' = "restore"
          /\ UNCHANGED <<current_, isGenericCall_>>
  /\ UNCHANGED <<savedPos, lookaheadFixed>>

\* the lookahead ending with the cursor where the scan stopped
LookaheadEnd_notRestored(cur, saved) == cur

\* tokens_.restorePosition(savedPos), whatever the scan found (line 95)
LookaheadEnd(cur, saved) == restorePosition(saved)

RestorePosition ==
  /\ tokenOp = "restore"
  /\ current_' = LookaheadEnd(current_, savedPos)
  /\ tokenOp' = IF isGenericCall_ THEN "genericCall" ELSE "postfix"
  /\ UNCHANGED <<savedPos, isGenericCall_, lookaheadFixed>>

LookaheadNext ==
  \/ MatchIdentifier
  \/ SavePosition
  \/ ScanTypeArgument
  \/ RestorePosition

SpecLookahead == LookaheadInit /\ [][LookaheadNext]_vars

\* the lookahead has run (a position was saved) and is over
LookaheadOver == savedPos > 0 /\ tokenOp \in {"postfix", "genericCall"}

\* C27: when the scan after `identifier <` does not find a type-argument
\* list followed by `>` and `(`, the cursor is back at the position saved
\* before the `<`, so no token has been consumed.
C27_FailedLookaheadConsumesNothing ==
  (LookaheadOver /\ ~isGenericCall_) =>
    /\ current_ = savedPos
    /\ check(tokens_, current_, "LESS")
    /\ check(tokens_, current_ - 1, "IDENTIFIER")

\* the scan went past a type name and a comma, failed, and was undone
C27_Witness ==
  /\ LookaheadOver
  /\ ~isGenericCall_
  /\ Len(tokens_) >= 5
  /\ check(tokens_, 3, "IDENTIFIER")
  /\ check(tokens_, 4, "COMMA")
  /\ current_ = 2


(***************************************************************************)
(* The statement loops: BaseParseVisitor::visitParse                       *)
(* (base_parse_visitor.cpp:34-63) and StatementParseVisitor::parseBlock    *)
(* (statement_parse_visitor.h:142-176), one loop iteration per step, on    *)
(* token sequences of identifiers, `;`, `{`, `}` and `return`.  tokenOp is *)
(* the loop the parser is in.                                              *)
(***************************************************************************)
LoopTokens ==
  {<<"IDENTIFIER", "a">>, <<"SEMICOLON", ";">>, <<"LEFT_BRACE", "{">>,
   <<"RIGHT_BRACE", "}">>, <<"RETURN", "return">>}

\* parseExpression on these tokens: parsePrimary takes an identifier, finds
\* no postfix operation and no binary operator behind it, and reports
\* "Expected expression" on every other token, the cursor left where it was
parseOperand(ts, pos) ==
  IF check(ts, pos, "IDENTIFIER")
    THEN Parsed(IdentifierExpression(peek(ts, pos)[2]), advance(ts, pos))
    ELSE Failure(pos)

\* parseExpressionStatement (statement_parse_visitor.cpp:9-46)
parseExpressionStatement(ts, pos) ==
  LET expr == parseOperand(ts, pos)
  IN  IF ~expr.ok THEN Failure(expr.pos)
      ELSE IF peek(ts, expr.pos)[2] # ";" THEN Failure(expr.pos)
      ELSE Parsed(<<"ExpressionStmt">>, advance(ts, expr.pos))

\* the return branch of parseStatement, the cursor on `return`
parseReturnStatement(ts, pos) ==
  LET afterReturn == advance(ts, pos)
      value == IF peek(ts, afterReturn)[2] # ";"
                 THEN parseOperand(ts, afterReturn)
                 ELSE Parsed(Null, afterReturn)
  IN  IF ~value.ok THEN Failure(value.pos)
      ELSE IF peek(ts, value.pos)[2] # ";" THEN Failure(value.pos)
      ELSE Parsed(<<"ReturnStmt">>, advance(ts, value.pos))

\* parseStatement on a token that does not open a block
parseStatement(ts, pos) ==
  IF peek(ts, pos)[2] = "return" THEN parseReturnStatement(ts, pos)
  ELSE parseExpressionStatement(ts, pos)

LoopsInit ==
  /\ tokens_ = <<>>
  /\ current_ = 1
  /\ tokenOp = "tokens"
  /\ startPos = 1
  /\ parsed = <<"none">>
  /\ LoopsIdle
  /\ BinaryIdle
  /\ LookaheadIdle
  /\ LocalsIdle
  /\ OptionsIdle
  /\ PassesIdle
  /\ FlowIdle
  /\ TypesIdle
  /\ scopes = <<>>
  /\ found = NoLookup
  /\ CheckIdle
  /\ ParseIdle
  /\ LowerIdle

loopsFixed == <<startPos, parsed, binaryVars, lookaheadVars, localVars,
                optionVars, passVars, flowVars, typeVars, scopeVars, checkVars,
                lowerVars, units, visitorAst_, ast_, reported, parsePc>>

\* the parser is constructed on the token stream of one source text
BaseParseVisitor ==
  /\ tokenOp = "tokens"
  /\ tokens_' \in SeqsUpTo(LoopTokens, MaxSyncTokens)
  /\ tokenOp' = "visitParse"
  /\ UNCHANGED <<current_, blockDepth, syncAtEnd, iteration, nodes_,
                 hadError, parseResult, loopsFixed>>

\* where parseBlock goes after a statement of the block failed at pos:
\* synchronize(), then leave the loop at a `}` or at the end of input
RecoverInBlock(pos) ==
  /\ current_' = StatementSynchronize(tokens_, pos)
  /\ syncAtEnd' = (syncAtEnd \/ isAtEnd(tokens_, pos))
  /\ tokenOp' = IF peek(tokens_, current_')[2] = "}" \/ isAtEnd(tokens_, current_')
                  THEN "block end" ELSE "parseBlock"

\* visitParse going on after a failed statement without synchronize()
RecoverTopLevel_noSynchronize(pos) ==
  /\ hadError' = TRUE
  /\ current_' = pos
  /\ syncAtEnd' = syncAtEnd
  /\ tokenOp' = "visitParse"

\* what visitParse does after a statement failed at pos
RecoverTopLevel(pos) ==
  /\ hadError' = TRUE
  /\ current_' = BaseSynchronize(tokens_, pos)
  /\ syncAtEnd' = (syncAtEnd \/ isAtEnd(tokens_, pos))
  /\ tokenOp' = "visitParse"

\* one iteration of the while loop of visitParse, up to the return of
\* parseStatement or to its call of parseBlock
VisitParseIteration ==
  /\ tokenOp = "visitParse"
  /\ iteration' = [loop |-> "visitParse", from |-> current_]
  /\ IF isAtEnd(tokens_, current_)
       THEN /\ tokenOp' = "done"
            /\ parseResult' = ~hadError
            /\ UNCHANGED <<current_, blockDepth, syncAtEnd, nodes_, hadError>>
     ELSE IF peek(tokens_, current_)[2] = "{"
       THEN /\ current_' = advance(tokens_, current_)
            /\ blockDepth' = blockDepth + 1
            /\ tokenOp' = "parseBlock"
            /\ UNCHANGED <<syncAtEnd, nodes_, hadError, parseResult>>
     ELSE LET stmtNode == parseStatement(tokens_, current_)
          IN  IF stmtNode.ok
                THEN /\ nodes_' = Append(nodes_, stmtNode.node)
                     /\ current_' = stmtNode.pos
                     /\ UNCHANGED <<tokenOp, blockDepth, syncAtEnd, hadError,
                                    parseResult>>
                ELSE /\ RecoverTopLevel(stmtNode.pos)
                     /\ UNCHANGED <<blockDepth, nodes_, parseResult>>
  /\ UNCHANGED <<tokens_, loopsFixed>>

\* one iteration of the while loop of parseBlock
ParseBlockIteration ==
  /\ tokenOp = "parseBlock"
  /\ iteration' = [loop |-> "parseBlock", from |-> current_]
  /\ IF isAtEnd(tokens_, current_) \/ peek(tokens_, current_)[2] = "}"
       THEN /\ tokenOp' = "block end"
            /\ UNCHANGED <<current_, blockDepth, syncAtEnd>>
     ELSE IF peek(tokens_, current_)[2] = "{"
       THEN /\ current_' = advance(tokens_, current_)
            /\ blockDepth' = blockDepth + 1
            /\ UNCHANGED <<tokenOp, syncAtEnd>>
     ELSE LET stmt == parseStatement(tokens_, current_)
          IN  IF stmt.ok
                THEN /\ current_' = stmt.pos
                     /\ UNCHANGED <<tokenOp, blockDepth, syncAtEnd>>
                ELSE /\ RecoverInBlock(stmt.pos)
                     /\ UNCHANGED blockDepth
  /\ UNCHANGED <<tokens_, nodes_, hadError, parseResult, loopsFixed>>

\* parseBlock after its loop: the closing brace, then the return to the loop
\* that called parseStatement (visitParse when no other block is open)
ParseBlockReturn ==
  /\ tokenOp = "block end"
  /\ iteration' = [loop |-> "none", from |-> current_]
  /\ blockDepth' = blockDepth - 1
  /\ LET closed == peek(tokens_, current_)[2] = "}"
         after == IF closed THEN advance(tokens_, current_) ELSE current_
     IN  IF blockDepth = 1
           THEN IF closed
                  THEN /\ nodes_' = Append(nodes_, <<"Block">>)
                       /\ current_' = after
                       /\ tokenOp' = "visitParse"
                       /\ UNCHANGED <<syncAtEnd, hadError>>
                  ELSE /\ RecoverTopLevel(after)
                       /\ UNCHANGED nodes_
           ELSE /\ IF closed
                     THEN /\ current_' = after
                          /\ tokenOp' = "parseBlock"
                          /\ UNCHANGED syncAtEnd
                     ELSE RecoverInBlock(after)
                /\ UNCHANGED <<nodes_, hadError>>
  /\ UNCHANGED <<tokens_, parseResult, loopsFixed>>

LoopsNext ==
  \/ BaseParseVisitor
  \/ VisitParseIteration
  \/ ParseBlockIteration
  \/ ParseBlockReturn

SpecLoops == LoopsInit /\ [][LoopsNext]_vars

\* C28: parsing terminates on every finite token sequence: each iteration
\* of the loop of visitParse and of the loop of parseBlock consumes at least
\* one token or ends its loop, also when a statement fails to parse and
\* recovery runs at or near the end of the input.
C28_EveryIterationConsumesOrEnds ==
  iteration.loop # "none" =>
    \/ current_ > iteration.from
    \/ (iteration.loop = "visitParse" /\ tokenOp = "done")
    \/ (iteration.loop = "parseBlock" /\ tokenOp = "block end")

\* parsing has ended after a failure inside a block and a recovery that
\* was started at the end of the input
C28_Witness ==
  /\ tokenOp = "done"
  /\ hadError
  /\ syncAtEnd
  /\ \E i \in 1..Len(tokens_) : tokens_[i][2] = "{"


(***************************************************************************)
(* The walk over loops and jump statements with function declarations and  *)
(* function expressions among the statements: visitFuncDecl                *)
(* (type_check_visitor.cpp:146-185) and visitFunctionExpr (1125-1155).     *)
(***************************************************************************)
FunctionKinds == {"FuncDecl", "FunctionExpr"}

\* what no step into or out of a function changes
functionFixed == <<found, pc, tokenVars, optionVars, passVars, laterVars,
                   typeVars, parseVars, lowerVars>>

\* enterFunctionScope(returnType) and the body block's enterScope
EnterFunctionBody(kind, returnType, ss, cur) ==
  /\ LET en == enterScope(ss, cur)
         body == enterScope(en.scopes, en.currentScope_)
     IN  /\ scopes' = body.scopes
         /\ currentScope_' = body.currentScope_
  /\ currentFunctionReturnType_' = returnType
  /\ stack' = Append(stack, Frame(kind, inLoop_, returnType))
  /\ lastStmt' = kind
  /\ lastReported' = FALSE
  /\ visited' = visited + 1
  /\ UNCHANGED <<inLoop_, diagnostics, success, loopsExited, functionFixed>>

\* visitFuncDecl of a function without parameters, up to its body
EnterFuncDecl ==
  /\ CanNest
  /\ \E name \in FuncNames, returnType \in {Void, Int} :
       EnterFunctionBody("FuncDecl", returnType,
         declareFunction(scopes, currentScope_, name, Function(returnType, <<>>)),
         currentScope_)

\* visitFunctionExpr of a function without parameters, up to its body
EnterFunctionExpr ==
  /\ CanNest
  /\ \E returnType \in {Void, Int} :
       EnterFunctionBody("FunctionExpr", returnType, scopes, currentScope_)

\* the body block's exitScope, then exitFunctionScope
LeaveFunctionBody ==
  /\ LET body == exitScope(scopes, currentScope_)
         ex == exitScope(body.scopes, body.currentScope_)
     IN  /\ scopes' = ex.scopes
         /\ currentScope_' = ex.currentScope_
  /\ currentFunctionReturnType_' = Null
  /\ stack' = Pop
  /\ lastStmt' = "End"
  /\ lastReported' = FALSE
  /\ UNCHANGED <<inLoop_, diagnostics, success, visited, loopsExited,
                 functionFixed>>

\* the rest of visitFuncDecl after its body
LeaveFuncDecl ==
  /\ pc = "pass2"
  /\ stack # <<>>
  /\ Top.kind = "FuncDecl"
  /\ LeaveFunctionBody

\* the rest of visitFunctionExpr after its body
LeaveFunctionExpr ==
  /\ pc = "pass2"
  /\ stack # <<>>
  /\ Top.kind = "FunctionExpr"
  /\ LeaveFunctionBody

NestedNext ==
  \/ FlowNext
  \/ EnterFuncDecl
  \/ LeaveFuncDecl
  \/ EnterFunctionExpr
  \/ LeaveFunctionExpr

SpecNested == CheckInit /\ [][NestedNext]_vars

\* the walk is in the body of a function that is nested inside a loop body,
\* and in no loop of that function
InFunctionNestedInLoop ==
  \E i \in 1..Len(stack) :
    /\ stack[i].kind \in FunctionKinds
    /\ \E j \in 1..(i - 1) : stack[j].kind \in LoopKinds
    /\ \A j \in (i + 1)..Len(stack) : stack[j].kind \notin LoopKinds

\* C29: the in-loop state does not carry across a function boundary: a
\* break or continue in the body of a function declaration or function
\* expression nested inside a loop body, and in no loop of that function,
\* is reported as an error.
C29_JumpInNestedFunctionIsError ==
  (lastStmt \in {"Break", "Continue"} /\ InFunctionNestedInLoop) => lastReported


(***************************************************************************)
(* LLVMCodeGen inside one function body: the scopes of LLVMFunction        *)
(* (llvm_function.cpp), visitVarDecl for a local declaration, visitBlock   *)
(* and visitIdentifierExpr (llvm_code_gen.cpp).  An instruction of the     *)
(* entry block is <<"alloca", name>>, <<"store", what, k>> or a return;    *)
(* the llvm::Value of an alloca is <<"alloca", k>>, k its index in the     *)
(* entry block; the llvm::Value of a global value is <<"global", i>>, i    *)
(* its index in the module.  Null is a null pointer.                       *)
(***************************************************************************)
\* most instructions of the entry block before the function's return
MaxInstructions == 4
\* most blocks open inside the function body
MaxBlockDepth == 2

LocalNames == {"x", "y"}

LLVMValue(value, type, isLValue) ==
  [value |-> value, type |-> type, isLValue |-> isLValue]

\* LLVMValue(): an empty value
NoValue == LLVMValue(Null, Null, FALSE)

\* LLVMValue::isValid
isValid(v) == v.value # Null /\ v.type # Null

\* LLVMFunction::enterScope
LLVMFunction_enterScope(ss) == Append(ss, EmptyMap)

\* LLVMFunction::exitScope: always keeps at least one scope
LLVMFunction_exitScope(ss) ==
  IF Len(ss) > 1 THEN SubSeq(ss, 1, Len(ss) - 1) ELSE ss

\* LLVMFunction::declareVariable
LLVMFunction_declareVariable(ss, name, value) ==
  IF ss # <<>>
    THEN [ss EXCEPT ![Len(ss)] =
            [n \in DOMAIN @ \cup {name} |-> IF n = name THEN value ELSE @[n]]]
    ELSE ss

\* LLVMFunction::getVariable: scopes from innermost to outermost
getVariable(ss, name) ==
  LET hits == {i \in 1..Len(ss) : name \in DOMAIN ss[i]}
  IN  IF hits = {} THEN NoValue
      ELSE ss[CHOOSE i \in hits : \A j \in hits : j <= i][name]

\* LLVMFunction::mapParameters: an alloca and a store of the argument for
\* each parameter, declared with the placeholder type Int
RECURSIVE mapParameters(_, _, _, _)
mapParameters(ss, block, paramNames, i) ==
  IF i > Len(paramNames) THEN [scopes_ |-> ss, entry |-> block]
  ELSE mapParameters(
         LLVMFunction_declareVariable(ss, paramNames[i],
           LLVMValue(<<"alloca", Len(block) + 1>>, Int, TRUE)),
         block \o <<<<"alloca", paramNames[i]>>,
                    <<"store", <<"arg", i>>, Len(block) + 1>>>>,
         paramNames, i + 1)

\* the module after generateCode has visited the global variable
\* declarations globals, in that order
RECURSIVE ModuleWithGlobals(_, _, _)
ModuleWithGlobals(m, globals, i) ==
  IF i > Len(globals) THEN m
  ELSE ModuleWithGlobals(Create(m, "variable", globals[i][2], TRUE, <<>>),
                         globals, i + 1)

\* the top-level nodes before the function declaration: global variable
\* declarations of different names
GlobalDecls ==
  {<<>>} \cup {<<<<"VarDecl", n>>>> : n \in LocalNames}

\* generateCode has visited the global declarations and is at the function
\* declaration that follows them
LocalsInit ==
  /\ \E globals \in GlobalDecls :
       /\ lowerAst = globals
       /\ lowerPos = Len(globals) + 1
       /\ module = ModuleWithGlobals(declareExternalFunctions(<<>>, 1),
                                     globals, 1)
  /\ topLevelAssemblyStatements_ = <<>>
  /\ topLevelExpressionStatements_ = <<>>
  /\ lowerPc = "visit"
  /\ lowerResult = FALSE
  /\ LocalsIdle
  /\ BinaryIdle
  /\ LookaheadIdle
  /\ LoopsIdle
  /\ TokensIdle
  /\ OptionsIdle
  /\ PassesIdle
  /\ FlowIdle
  /\ TypesIdle
  /\ scopes = <<>>
  /\ found = NoLookup
  /\ CheckIdle
  /\ ParseIdle

localsFixed == <<lowerAst, topLevelAssemblyStatements_,
                 topLevelExpressionStatements_, lowerResult, binaryVars,
                 lookaheadVars, loopVars, tokenVars, optionVars, passVars,
                 flowVars, typeVars, scopeVars, checkVars, units, nodes_,
                 hadError, visitorAst_, ast_, parsePc, parseResult>>

\* visitFunctionDecl of function f up to the statements of its body: the
\* function is created, LLVMFunction's constructor enters the initial
\* scope, mapParameters declares the parameters, visitBlock enters a scope
LowerFunctionEnter ==
  /\ lowerPc = "visit"
  /\ lowerPos = Len(lowerAst) + 1
  /\ getFunction(module, "f") = {}
  /\ \E paramNames \in {<<>>} \cup {<<n>> : n \in LocalNames} :
       LET mapped == mapParameters(LLVMFunction_enterScope(<<>>), <<>>,
                                   paramNames, 1)
       IN  /\ scopes_' = LLVMFunction_enterScope(mapped.scopes_)
           /\ entry' = mapped.entry
  /\ module' = Create(module, "function", "f", TRUE, <<>>)
  /\ lowerPc' = "body"
  /\ UNCHANGED <<lowerPos, identifier, reported, localsFixed>>

\* visitBlock of a block statement in the body, up to its statements
LowerBlockEnter ==
  /\ lowerPc = "body"
  /\ Len(scopes_) < MaxBlockDepth + 2
  /\ scopes_' = LLVMFunction_enterScope(scopes_)
  /\ UNCHANGED <<entry, identifier, module, lowerPc, lowerPos, reported,
                 localsFixed>>

\* the rest of that visitBlock after the block's statements
LowerBlockExit ==
  /\ lowerPc = "body"
  /\ Len(scopes_) > 2
  /\ scopes_' = LLVMFunction_exitScope(scopes_)
  /\ UNCHANGED <<entry, identifier, module, lowerPc, lowerPos, reported,
                 localsFixed>>

\* visitVarDecl(node, false) of a let or const declaration, without
\* initializer or with a literal one
LowerVarDecl ==
  /\ lowerPc = "body"
  /\ Len(entry) + 2 <= MaxInstructions
  /\ \E name \in LocalNames, initializer \in BOOLEAN :
       LET k == Len(entry) + 1
       IN  /\ entry' = entry \o <<<<"alloca", name>>>> \o
                         (IF initializer THEN <<<<"store", "literal", k>>>>
                          ELSE <<>>)
           /\ scopes_' = LLVMFunction_declareVariable(scopes_, name,
                           LLVMValue(<<"alloca", k>>, Null, TRUE))
  /\ UNCHANGED <<identifier, module, lowerPc, lowerPos, reported, localsFixed>>

\* the scopes of the function body that declare name: the body's block and
\* the blocks nested in it; scopes_[1] holds the parameters
LocalScopes(ss, name) == {i \in 2..Len(ss) : name \in DOMAIN ss[i]}

\* the stack slot of the local variable a use of name refers to
LocalSlot(ss, name) ==
  IF LocalScopes(ss, name) = {} THEN Null
  ELSE ss[CHOOSE i \in LocalScopes(ss, name) :
            \A j \in LocalScopes(ss, name) : j <= i][name].value

\* visitIdentifierExpr: the local variables, the global variables, the
\* functions, else the error
lowerIdentifierExpr(name, ss, m) ==
  LET var == getVariable(ss, name)
  IN  IF ss # <<>> /\ isValid(var)
        THEN [value |-> var, reported |-> FALSE]
      ELSE IF getGlobalVariable(m, name) # {}
        THEN [value |-> LLVMValue(<<"global",
                          CHOOSE i \in getGlobalVariable(m, name) : TRUE>>,
                          Null, TRUE),
              reported |-> FALSE]
      ELSE IF getFunction(m, name) # {}
        THEN [value |-> LLVMValue(<<"global",
                          CHOOSE i \in getFunction(m, name) : TRUE>>,
                          Null, FALSE),
              reported |-> FALSE]
      ELSE [value |-> NoValue, reported |-> TRUE]

\* an expression statement in the body whose expression is an identifier
LowerIdentifierExpr ==
  /\ lowerPc = "body"
  /\ \E name \in LocalNames \cup {"f"} :
       LET r == lowerIdentifierExpr(name, scopes_, module)
       IN  /\ identifier' = [name |-> name,
                             slot |-> LocalSlot(scopes_, name),
                             result |-> r.value,
                             reported |-> r.reported]
           /\ reported' = IF r.reported
                            THEN error(reported, <<"Undefined identifier: ", name>>)
                            ELSE reported
  /\ UNCHANGED <<scopes_, entry, module, lowerPc, lowerPos, localsFixed>>

\* the rest of visitFunctionDecl after the statements of the body: the
\* body's visitBlock exits its scope, the unterminated block gets the
\* default return, currentFunction_ is reset
LowerFunctionLeave ==
  /\ lowerPc = "body"
  /\ Len(scopes_) = 2
  /\ scopes_' = <<>>
  /\ entry' = Append(entry, DefaultReturn(LoweredReturnType("int")))
  /\ lowerPc' = "visit"
  /\ lowerPos' = lowerPos + 1
  /\ UNCHANGED <<identifier, module, reported, localsFixed>>

LocalsNext ==
  \/ LowerFunctionEnter
  \/ LowerBlockEnter
  \/ LowerBlockExit
  \/ LowerVarDecl
  \/ LowerIdentifierExpr
  \/ LowerFunctionLeave

SpecLocals == LocalsInit /\ [][LocalsNext]_vars

\* C30: a use of a name that a let or const declaration of the function
\* body declares in a scope not yet exited resolves to that variable: the
\* identifier lookup returns the variable's stack slot as an lvalue and
\* reports no undefined-identifier error.
C30_LocalVariableResolves ==
  (identifier.name # "none" /\ identifier.slot # Null) =>
    /\ identifier.result.value = identifier.slot
    /\ identifier.result.isLValue
    /\ ~identifier.reported

=============================================================================
